---- MODULE Spec2Model ----
(***************************************************************************)
(* Model of the dealership-verification pipeline.                          *)
(*                                                                         *)
(*   Resilience layer  : error_handler.py (ErrorTracker, retry_with_backoff)*)
(*   Hybrid coordinator: super_hybrid_extractor.py, hybrid_extractor.py    *)
(*   Orchestrator      : verify_all_dealerships.py (DealershipVerifier)    *)
(*   Resource guard, shutdown supervisor: error_handler.py                 *)
(*   Contact validation: contact_extractor.py, firecrawl_extractor_simple.py*)
(*   Staff scorer      : staff_extractor.py                                *)
(***************************************************************************)
EXTENDS Integers, Sequences, FiniteSets, TLC

VARIABLES tracker, now, last_call, w, co, prog, bw, snapshot, sup, run, ckpt, guard,
          dc, scorer, fmt, th, br

vars == <<tracker, now, last_call, w, co, prog, bw, snapshot, sup, run, ckpt, guard,
          dc, scorer, fmt, th, br>>

\* the variables of the resilience layer and those of the coordinator
resilience_vars == <<tracker, now, last_call, w>>
coordinator_vars == <<co>>
\* the variables of the orchestrator and of the shutdown supervisor
orchestrator_vars == <<prog, bw, snapshot, sup, run, ckpt>>
\* the variables of one process_batch call, and those of a whole run
batch_vars == <<bw, snapshot>>
run_vars == <<run, ckpt>>
\* the variables of a ResourceGuard
guard_vars == <<guard>>
\* the latest call of a decorated method of the verifier
calls_vars == <<dc>>
\* the staff scorer's candidates, and the value handed to a validator or formatter
extraction_vars == <<scorer, fmt>>
\* the threads inside the tracker's methods, and the browser sessions of the
\* workers
worker_vars == <<th, br>>
\* what the actions of the resilience layer, and those of the coordinator,
\* leave alone
outside_resilience == <<coordinator_vars, orchestrator_vars, guard_vars, calls_vars, extraction_vars, worker_vars>>
outside_coordinator == <<resilience_vars, orchestrator_vars, guard_vars, calls_vars, extraction_vars, worker_vars>>

(***************************************************************************)
(* Bounds of the model                                                     *)
(***************************************************************************)
\* largest clock value explored
MaxTime == 302
\* largest total error count kept for one resource key
MaxErrors == 6
\* largest max_retries a decorated function is configured with
MaxRetriesBound == 3
\* largest max_retries of a decorated function that calls a decorated function
MaxNestedRetries == 1

\* resource keys (domains) and the exception classes the wrapped functions raise
Resources == {"dealerA.com", "dealerB.com"}
FuncExceptions == {"ConnectionError", "ValueError"}
\* amounts by which the clock advances between two steps
TickSteps == {150, 151}

(***************************************************************************)
(* Program constants                                                       *)
(***************************************************************************)
error_threshold == 5
reset_interval == 300
initial_backoff == 1
backoff_factor == 2
max_backoff == 30
\* the default retry_exceptions tuple (class names)
retry_exceptions ==
    {"RequestException", "TimeoutException", "WebDriverException", "ConnectionError", "timeout"}

\* the classes an exception of the given class is an instance of
ClassesOf(e) ==
    IF e = "ConnectionError" THEN {"ConnectionError", "RequestException", "OSError", "Exception"}
    ELSE IF e = "ConnectTimeout"
    THEN {"ConnectTimeout", "ConnectionError", "Timeout", "RequestException", "OSError",
          "Exception"}
    ELSE IF e = "CircuitOpenException" THEN {"CircuitOpenException", "Exception"}
    ELSE {e, "Exception"}

Min(a, b) == IF a <= b THEN a ELSE b

\* Python dict assignment d[k] = v
DictSet(d, k, v) == [x \in (DOMAIN d) \cup {k} |-> IF x = k THEN v ELSE d[x]]

EmptyDict == [x \in {} |-> 0]

RECURSIVE SumOver(_, _)
SumOver(d, S) ==
    IF S = {} THEN 0
    ELSE LET k == CHOOSE k \in S : TRUE IN d[k] + SumOver(d, S \ {k})

\* sum(d.values())
SumValues(d) == SumOver(d, DOMAIN d)

(***************************************************************************)
(* ErrorTracker: T is the tracker's state, a record of its three dicts     *)
(***************************************************************************)
\* total errors the tracker holds for resource_key (0 when it has no entry)
total_errors(T, resource_key) ==
    IF resource_key \in DOMAIN T.error_counts
    THEN SumValues(T.error_counts[resource_key]) ELSE 0

\* record_error opening the circuit only above the threshold
record_error_above(T, resource_key, error_type, t) ==
    LET ec0 == IF resource_key \in DOMAIN T.error_counts
               THEN T.error_counts[resource_key] ELSE EmptyDict
        ec1 == IF error_type \in DOMAIN ec0 THEN ec0 ELSE DictSet(ec0, error_type, 0)
        ec2 == DictSet(ec1, error_type, ec1[error_type] + 1)
    IN [error_counts    |-> DictSet(T.error_counts, resource_key, ec2),
        last_error_time |-> DictSet(T.last_error_time, resource_key, t),
        circuit_open    |-> IF SumValues(ec2) > error_threshold
                            THEN DictSet(T.circuit_open, resource_key, TRUE)
                            ELSE T.circuit_open]

record_error(T, resource_key, error_type, t) ==
    LET ec0 == IF resource_key \in DOMAIN T.error_counts
               THEN T.error_counts[resource_key] ELSE EmptyDict
        ec1 == IF error_type \in DOMAIN ec0 THEN ec0 ELSE DictSet(ec0, error_type, 0)
        ec2 == DictSet(ec1, error_type, ec1[error_type] + 1)
    IN [error_counts    |-> DictSet(T.error_counts, resource_key, ec2),
        last_error_time |-> DictSet(T.last_error_time, resource_key, t),
        circuit_open    |-> IF SumValues(ec2) >= error_threshold
                            THEN DictSet(T.circuit_open, resource_key, TRUE)
                            ELSE T.circuit_open]

\* reset_circuit closing the circuit but keeping the error counts
reset_circuit_keeps_counts(T, resource_key) ==
    [error_counts    |-> T.error_counts,
     circuit_open    |-> IF resource_key \in DOMAIN T.circuit_open
                         THEN DictSet(T.circuit_open, resource_key, FALSE)
                         ELSE T.circuit_open,
     last_error_time |-> T.last_error_time]

reset_circuit(T, resource_key) ==
    [error_counts    |-> IF resource_key \in DOMAIN T.error_counts
                         THEN DictSet(T.error_counts, resource_key, EmptyDict)
                         ELSE T.error_counts,
     circuit_open    |-> IF resource_key \in DOMAIN T.circuit_open
                         THEN DictSet(T.circuit_open, resource_key, FALSE)
                         ELSE T.circuit_open,
     last_error_time |-> T.last_error_time]

\* check_circuit returns a value and may reset the circuit: ret is the value,
\* T the tracker state it leaves, did_reset whether it reset the circuit
check_circuit(T, resource_key, t) ==
    IF resource_key \notin DOMAIN T.circuit_open \/ ~T.circuit_open[resource_key]
    THEN [ret |-> FALSE, T |-> T, did_reset |-> FALSE]
    ELSE IF resource_key \in DOMAIN T.last_error_time
            /\ t - T.last_error_time[resource_key] > reset_interval
    THEN [ret |-> FALSE, T |-> reset_circuit(T, resource_key), did_reset |-> TRUE]
    ELSE [ret |-> TRUE, T |-> T, did_reset |-> FALSE]

(***************************************************************************)
(* State                                                                   *)
(***************************************************************************)
\* the tracker call made by the latest step: operation, resource key, value
\* returned, and whether it logged "Circuit breaker reset"
NoCall == [op |-> "none", key |-> "none", val |-> FALSE, did_reset |-> FALSE]

\* one call of a decorated function: the wrapper's locals (key, retries,
\* backoff) and the history of the call: invocations and failures of func,
\* sleeps, record_error calls, how the call ended and the last exception
IdleWrapper ==
    [pc |-> "idle", key |-> "none", max_retries |-> 0, retries |-> 0,
     backoff |-> 0, invocations |-> 0, fails |-> 0, sleeps |-> 0, records |-> 0,
     result |-> "none", exc |-> "none"]

InitResilience ==
    /\ tracker = [error_counts |-> EmptyDict, circuit_open |-> EmptyDict,
                  last_error_time |-> EmptyDict]
    /\ now = 0
    /\ last_call = NoCall
    /\ w = IdleWrapper

(***************************************************************************)
(* Direct calls of the tracker's API (any thread)                          *)
(***************************************************************************)
RecordError(r, e) ==
    /\ total_errors(tracker, r) < MaxErrors
    /\ tracker' = record_error(tracker, r, e, now)
    /\ last_call' = [op |-> "record_error", key |-> r, val |-> FALSE, did_reset |-> FALSE]
    /\ UNCHANGED <<now, w>>
    /\ UNCHANGED outside_resilience

CheckCircuit(r) ==
    LET c == check_circuit(tracker, r, now) IN
    /\ tracker' = c.T
    /\ last_call' = [op |-> "check_circuit", key |-> r, val |-> c.ret, did_reset |-> c.did_reset]
    /\ UNCHANGED <<now, w>>
    /\ UNCHANGED outside_resilience

ResetCircuit(r) ==
    /\ tracker' = reset_circuit(tracker, r)
    /\ last_call' = [op |-> "reset_circuit", key |-> r, val |-> FALSE, did_reset |-> FALSE]
    /\ UNCHANGED <<now, w>>
    /\ UNCHANGED outside_resilience

\* time.time() advances
Tick(d) ==
    /\ now + d <= MaxTime
    /\ now' = now + d
    /\ last_call' = NoCall
    /\ UNCHANGED <<tracker, w>>
    /\ UNCHANGED outside_resilience

(***************************************************************************)
(* retry_with_backoff.wrapper, one call at a time                          *)
(***************************************************************************)
\* every exception treated as transient
IsRetryException_any(e) == e = e

\* is the exception caught by `except retry_exceptions`
IsRetryException(e) == ClassesOf(e) \cap retry_exceptions # {}

\* `if retries > max_retries` giving up one attempt early
GivesUp_early(retries, max_retries) == retries >= max_retries

\* `if retries > max_retries`: the retries are exhausted
GivesUp(retries, max_retries) == retries > max_retries

\* wrapper entry that calls the function whatever check_circuit returned
WrapperEnter_unchecked(r, mr) ==
    LET c == check_circuit(tracker, r, now) IN
    /\ w.pc = "idle"
    /\ tracker' = c.T
    /\ last_call' = [op |-> "check_circuit", key |-> r, val |-> c.ret, did_reset |-> c.did_reset]
    /\ w' = [IdleWrapper EXCEPT !.pc = "call_func", !.key = r, !.max_retries = mr,
                                !.backoff = initial_backoff]
    /\ UNCHANGED now
    /\ UNCHANGED outside_resilience

\* wrapper entry: resource key, circuit check, retries = 0, backoff = initial
WrapperEnter(r, mr) ==
    LET c == check_circuit(tracker, r, now) IN
    /\ w.pc = "idle"
    /\ tracker' = c.T
    /\ last_call' = [op |-> "check_circuit", key |-> r, val |-> c.ret, did_reset |-> c.did_reset]
    /\ w' = IF c.ret
            THEN [IdleWrapper EXCEPT !.key = r, !.max_retries = mr,
                                     !.result = "refused", !.exc = "CircuitOpenException"]
            ELSE [IdleWrapper EXCEPT !.pc = "call_func", !.key = r, !.max_retries = mr,
                                     !.backoff = initial_backoff]
    /\ UNCHANGED now
    /\ UNCHANGED outside_resilience

\* a wrapper that closes the circuit and clears the counts of its key when
\* func returns
FuncReturns_resets ==
    /\ w.pc = "call_func"
    /\ w' = [w EXCEPT !.pc = "idle", !.invocations = @ + 1, !.result = "returned"]
    /\ tracker' = reset_circuit(tracker, w.key)
    /\ last_call' = NoCall
    /\ UNCHANGED now
    /\ UNCHANGED outside_resilience

\* func(*args, **kwargs) returns
FuncReturns ==
    /\ w.pc = "call_func"
    /\ w' = [w EXCEPT !.pc = "idle", !.invocations = @ + 1, !.result = "returned"]
    /\ last_call' = NoCall
    /\ UNCHANGED <<tracker, now>>
    /\ UNCHANGED outside_resilience

\* func raises e, every failed attempt recorded against the circuit
FuncRaises_records_each(e) ==
    /\ w.pc = "call_func"
    /\ total_errors(tracker, w.key) < MaxErrors
    /\ tracker' = record_error(tracker, w.key, e, now)
    /\ last_call' = [op |-> "record_error", key |-> w.key, val |-> FALSE, did_reset |-> FALSE]
    /\ w' = IF IsRetryException(e) /\ ~GivesUp(w.retries + 1, w.max_retries)
            THEN [w EXCEPT !.pc = "sleep", !.invocations = @ + 1,
                           !.retries = @ + 1, !.fails = @ + 1, !.exc = e]
            ELSE [w EXCEPT !.pc = "idle", !.invocations = @ + 1, !.fails = @ + 1,
                           !.retries = IF IsRetryException(e) THEN @ + 1 ELSE @,
                           !.records = @ + 1, !.result = "raised", !.exc = e]
    /\ UNCHANGED now
    /\ UNCHANGED outside_resilience

\* func raises e: the two except clauses
FuncRaises(e) ==
    /\ w.pc = "call_func"
    /\ IF IsRetryException(e)
       THEN IF GivesUp(w.retries + 1, w.max_retries)
            THEN /\ total_errors(tracker, w.key) < MaxErrors
                 /\ tracker' = record_error(tracker, w.key, e, now)
                 /\ last_call' = [op |-> "record_error", key |-> w.key, val |-> FALSE, did_reset |-> FALSE]
                 /\ w' = [w EXCEPT !.pc = "idle", !.invocations = @ + 1,
                                   !.fails = @ + 1,
                                   !.retries = @ + 1, !.records = @ + 1,
                                   !.result = "raised", !.exc = e]
            ELSE /\ w' = [w EXCEPT !.pc = "sleep", !.invocations = @ + 1,
                                   !.retries = @ + 1, !.fails = @ + 1, !.exc = e]
                 /\ last_call' = NoCall
                 /\ UNCHANGED tracker
       ELSE /\ total_errors(tracker, w.key) < MaxErrors
            /\ tracker' = record_error(tracker, w.key, e, now)
            /\ last_call' = [op |-> "record_error", key |-> w.key, val |-> FALSE, did_reset |-> FALSE]
            /\ w' = [w EXCEPT !.pc = "idle", !.invocations = @ + 1,
                              !.fails = @ + 1, !.records = @ + 1,
                              !.result = "raised", !.exc = e]
    /\ UNCHANGED now
    /\ UNCHANGED outside_resilience

\* time.sleep(wait_time) returns (the clock advances by Tick), next backoff
Sleep ==
    /\ w.pc = "sleep"
    /\ w' = [w EXCEPT !.pc = "call_func", !.sleeps = @ + 1,
                      !.backoff = Min(w.backoff * backoff_factor, max_backoff)]
    /\ last_call' = NoCall
    /\ UNCHANGED <<tracker, now>>
    /\ UNCHANGED outside_resilience

\* the body of func calls another decorated function, whose resource key is
\* r2 (extract_contacts calls _load_page_with_retry): the inner wrapper checks
\* the circuit of r2. When it is open the inner wrapper raises
\* CircuitOpenException, func does not catch it, and the outer wrapper's
\* `except Exception` records it against the outer key and re-raises;
\* otherwise the inner call goes on inside func
InnerWrapperEnter(r2) ==
    LET c == check_circuit(tracker, r2, now) IN
    /\ w.pc = "call_func" /\ r2 # w.key
    /\ IF c.ret
       THEN /\ total_errors(c.T, w.key) < MaxErrors
            /\ tracker' = record_error(c.T, w.key, "CircuitOpenException", now)
            /\ last_call' = [op |-> "record_error", key |-> w.key, val |-> FALSE,
                             did_reset |-> FALSE]
            /\ w' = [w EXCEPT !.pc = "idle", !.invocations = @ + 1,
                              !.fails = @ + 1, !.records = @ + 1,
                              !.result = "raised", !.exc = "CircuitOpenException"]
       ELSE /\ tracker' = c.T
            /\ last_call' = [op |-> "check_circuit", key |-> r2, val |-> c.ret,
                             did_reset |-> c.did_reset]
            /\ UNCHANGED w
    /\ UNCHANGED now
    /\ UNCHANGED outside_resilience

(***************************************************************************)
(* Hybrid extraction coordinators                                          *)
(*   impl "super"  : SuperHybridExtractor.extract_all                      *)
(*   impl "hybrid" : HybridContactExtractor.extract_contacts               *)
(***************************************************************************)
\* Python's None, for the address
None == "None"

Emails == {"sales@dealer.com", "info@dealer.com"}
Phones == {"2165551234", "8005550100"}
\* longest email list a backend returns
MaxEmails == 2
\* longest phone list a backend returns
MaxPhones == 1

\* lists over S of length at most n, and those without a repeated element
Lists(S, n) == UNION {[1..k -> S] : k \in 0..n}
ListsNoDup(S, n) == {l \in Lists(S, n) : \A i, j \in DOMAIN l : l[i] = l[j] => i = j}

\* set(l) and the lists list(set) can be (the order of a set is unspecified)
Elems(l) == {l[i] : i \in DOMAIN l}
ListsOfSet(S) == {l \in ListsNoDup(S, Cardinality(S)) : Elems(l) = S}

\* Python truth value of an address (None and '' are false)
Truthy(a) == a \notin {None, ""}

\* what backend A (ContactExtractor.extract_contacts) returns: lists made from
\* sets, and an address that is None or passed _validate_contact_data
SeleniumResults ==
    [emails : ListsNoDup(Emails, MaxEmails), phones : ListsNoDup(Phones, MaxPhones),
     address : {None, "1 Main St, Cleveland OH 44101"}]
\* what StaffExtractor.extract_staff returns
StaffResults == {<<>>, <<"Pat Smith">>}
\* what backend B (FirecrawlExtractor.extract_contacts) returns: the emails of
\* finalAnalysis are not deduplicated, the phones are, the address is the
\* stripped regex group (None, possibly empty)
FirecrawlResults ==
    [emails : Lists(Emails, MaxEmails), phones : ListsNoDup(Phones, MaxPhones),
     address : {None, "", "9 Oak Ave, Akron OH 44301"}]

SuperModes == {"auto", "fallback", "combine"}
HybridModes == {"auto", "on_failure", "always"}

NoResult == [emails |-> <<>>, phones |-> <<>>, address |-> None]

\* results as initialised by the coordinators, with the history of the call:
\* sel / fc are what the backends returned, *_raised whether they raised,
\* fc_calls the number of calls of backend B
InitialCall(impl, mode) ==
    [pc |-> "contacts", impl |-> impl, mode |-> mode,
     emails |-> <<>>, phones |-> <<>>, address |-> None, staff |-> <<>>,
     method |-> "hybrid", selenium_success |-> FALSE, firecrawl_success |-> FALSE,
     use_firecrawl |-> FALSE,
     has_emails |-> FALSE, has_phones |-> FALSE, has_address |-> FALSE,
     sel |-> NoResult, sel_raised |-> FALSE, staff_res |-> <<>>, staff_raised |-> FALSE,
     fc |-> NoResult, fc_raised |-> FALSE, fc_calls |-> 0]

InitCoordinator == co = [InitialCall("super", "auto") EXCEPT !.pc = "idle"]

\* a caller invokes a coordinator configured with a mode
CoStart(impl, mode) ==
    /\ co.pc \in {"idle", "done"}
    /\ co' = InitialCall(impl, mode)
    /\ UNCHANGED outside_coordinator

\* extract_all: contact_extractor.extract_contacts(url) returns or raises
SH_Contacts ==
    /\ co.pc = "contacts" /\ co.impl = "super"
    /\ \/ \E r \in SeleniumResults :
            co' = [co EXCEPT !.pc = "staff", !.sel = r,
                             !.has_emails = Len(r.emails) > 0,
                             !.has_phones = Len(r.phones) > 0,
                             !.has_address = r.address # None,
                             !.emails = r.emails, !.phones = r.phones,
                             !.address = r.address]
       \/ co' = [co EXCEPT !.pc = "firecrawl", !.sel_raised = TRUE,
                           !.use_firecrawl = TRUE]
    /\ UNCHANGED outside_coordinator

\* a decision that treats "fallback" like "auto"
SuperUseFirecrawl_fallback_as_auto(mode, has_emails, has_phones, has_address, staff) ==
    IF mode = "combine" THEN TRUE
    ELSE ~(has_emails /\ has_phones /\ has_address /\ Len(staff) > 0)

\* the decision of extract_all once the local extractors are done
SuperUseFirecrawl(mode, has_emails, has_phones, has_address, staff) ==
    IF mode = "combine" THEN TRUE
    ELSE IF mode = "auto"
    THEN ~(has_emails /\ has_phones /\ has_address /\ Len(staff) > 0)
    ELSE FALSE

\* extract_all: staff_extractor.extract_staff(url) returns or raises (caught),
\* selenium_success, use_firecrawl
SH_Staff ==
    /\ co.pc = "staff" /\ co.impl = "super"
    /\ \E raised \in BOOLEAN, sr \in StaffResults :
         /\ raised => sr = <<>>
         /\ LET staff == IF ~raised /\ sr # <<>> THEN sr ELSE co.staff IN
            co' = [co EXCEPT !.pc = "firecrawl", !.staff_res = sr,
                             !.staff_raised = raised, !.staff = staff,
                             !.selenium_success = TRUE,
                             !.use_firecrawl =
                                 SuperUseFirecrawl(co.mode, co.has_emails, co.has_phones,
                                                   co.has_address, staff)]
    /\ UNCHANGED outside_coordinator

\* extract_all: is backend B called
SuperCallsFirecrawl(use_firecrawl, mode, selenium_success) ==
    use_firecrawl \/ (mode = "fallback" /\ ~selenium_success)

\* extract_all: merge of a list of results with backend B's list
SuperMergeLists(mine, theirs) ==
    IF mine = <<>> THEN {theirs}
    ELSE IF theirs # <<>> THEN ListsOfSet(Elems(mine \o theirs))
    ELSE {mine}

\* a merge that never takes backend B's address
SuperMergeAddress_keeps(mine, theirs) == IF Truthy(theirs) THEN mine ELSE mine

\* extract_all: merge of the address with backend B's address
SuperMergeAddress(mine, theirs) ==
    IF ~Truthy(mine) /\ Truthy(theirs) THEN theirs ELSE mine

\* extract_all: the Firecrawl block
SH_Firecrawl ==
    /\ co.pc = "firecrawl" /\ co.impl = "super"
    /\ IF SuperCallsFirecrawl(co.use_firecrawl, co.mode, co.selenium_success)
       THEN \/ \E r \in FirecrawlResults :
                 \E em \in SuperMergeLists(co.emails, r.emails),
                    ph \in SuperMergeLists(co.phones, r.phones) :
                   co' = [co EXCEPT !.pc = "finish", !.fc = r, !.fc_calls = @ + 1,
                                    !.emails = em, !.phones = ph,
                                    !.address = SuperMergeAddress(co.address, r.address),
                                    !.firecrawl_success = TRUE]
            \/ co' = [co EXCEPT !.pc = "finish", !.fc_raised = TRUE, !.fc_calls = @ + 1]
       ELSE co' = [co EXCEPT !.pc = "finish"]
    /\ UNCHANGED outside_coordinator

\* a method chain without its final else: the initial value stays
SuperMethod_no_else(selenium_success, firecrawl_success) ==
    IF selenium_success /\ firecrawl_success THEN "super_hybrid"
    ELSE IF selenium_success THEN "selenium"
    ELSE IF firecrawl_success THEN "firecrawl"
    ELSE "hybrid"

\* extract_all: the primary extraction method
SuperMethod(selenium_success, firecrawl_success) ==
    IF selenium_success /\ firecrawl_success THEN "super_hybrid"
    ELSE IF selenium_success THEN "selenium"
    ELSE IF firecrawl_success THEN "firecrawl"
    ELSE "failed"

\* extract_all: method and clean_results, returned
SH_Finish ==
    /\ co.pc = "finish" /\ co.impl = "super"
    /\ co' = [co EXCEPT !.pc = "done",
                        !.method = SuperMethod(co.selenium_success, co.firecrawl_success)]
    /\ UNCHANGED outside_coordinator

\* extract_contacts of HybridContactExtractor: does Selenium's result need Firecrawl
HybridNeedsFallback(mode, has_emails, has_phones, has_address) ==
    IF mode = "always" THEN TRUE
    ELSE IF mode = "auto" THEN ~(has_emails /\ has_phones /\ has_address)
    ELSE FALSE

\* extract_contacts: selenium_extractor.extract_contacts(url) returns (with the
\* early return when no fallback is needed) or raises
HY_Selenium ==
    /\ co.pc = "contacts" /\ co.impl = "hybrid"
    /\ \/ \E r \in SeleniumResults :
            LET nf == HybridNeedsFallback(co.mode, Len(r.emails) > 0, Len(r.phones) > 0,
                                          r.address # None) IN
            co' = [co EXCEPT !.pc = IF nf THEN "firecrawl" ELSE "done",
                             !.sel = r,
                             !.has_emails = Len(r.emails) > 0,
                             !.has_phones = Len(r.phones) > 0,
                             !.has_address = r.address # None,
                             !.emails = co.emails \o r.emails,
                             !.phones = co.phones \o r.phones,
                             !.address = IF r.address # None THEN r.address ELSE co.address,
                             !.selenium_success = TRUE,
                             !.use_firecrawl = nf,
                             !.method = IF nf THEN co.method ELSE "selenium"]
       \/ co' = [co EXCEPT !.pc = "firecrawl", !.sel_raised = TRUE,
                           !.use_firecrawl = TRUE]
    /\ UNCHANGED outside_coordinator

\* extract_contacts: the Firecrawl block
HY_Firecrawl ==
    /\ co.pc = "firecrawl" /\ co.impl = "hybrid"
    /\ IF co.use_firecrawl \/ co.mode = "always"
       THEN \/ \E r \in FirecrawlResults :
                 \E em \in ListsOfSet(Elems(co.emails \o r.emails)),
                    ph \in ListsOfSet(Elems(co.phones \o r.phones)) :
                   co' = [co EXCEPT !.pc = "finish", !.fc = r, !.fc_calls = @ + 1,
                                    !.emails = em, !.phones = ph,
                                    !.address = IF ~Truthy(co.address) /\ r.address # None
                                                THEN r.address ELSE co.address,
                                    !.firecrawl_success = TRUE]
            \/ co' = [co EXCEPT !.pc = "finish", !.fc_raised = TRUE, !.fc_calls = @ + 1]
       ELSE co' = [co EXCEPT !.pc = "finish"]
    /\ UNCHANGED outside_coordinator

\* a method_used that reports a failure whenever Firecrawl failed
HybridMethod_needs_firecrawl(selenium_success, firecrawl_success) ==
    IF selenium_success /\ firecrawl_success THEN "hybrid"
    ELSE IF firecrawl_success THEN "firecrawl"
    ELSE "failed"

\* extract_contacts: method_used
HybridMethod(selenium_success, firecrawl_success) ==
    IF selenium_success /\ firecrawl_success THEN "hybrid"
    ELSE IF selenium_success THEN "selenium"
    ELSE IF firecrawl_success THEN "firecrawl"
    ELSE "failed"

HY_Finish ==
    /\ co.pc = "finish" /\ co.impl = "hybrid"
    /\ co' = [co EXCEPT !.pc = "done",
                        !.method = HybridMethod(co.selenium_success, co.firecrawl_success)]
    /\ UNCHANGED outside_coordinator

NextHybrid ==
    \/ \E m \in SuperModes : CoStart("super", m)
    \/ \E m \in HybridModes : CoStart("hybrid", m)
    \/ SH_Contacts
    \/ SH_Staff
    \/ SH_Firecrawl
    \/ SH_Finish
    \/ HY_Selenium
    \/ HY_Firecrawl
    \/ HY_Finish

(***************************************************************************)
(* Orchestrator: DealershipVerifier.process_batch, one worker thread       *)
(***************************************************************************)
\* largest number of rows in a batch
MaxBatch == 3

\* what the network does for a row's website:
\*   live          : the liveness check gets a 2xx, the extraction returns
\*   live_noscrape : the liveness check gets a 2xx, every extraction attempt
\*                   times out
\*   dead          : the liveness check gets a non-2xx status or lands on an
\*                   error page
\*   timeout       : every request of the liveness check times out
\*   refused       : every request of the liveness check is refused
RecordKinds == {"live", "live_noscrape", "dead", "timeout", "refused"}

\* the rows of the input file: a dealership's name (its lower-case words), its
\* website's domain, and what the network does for that website
Rows ==
    {[DealershipName |-> <<"metro", "toyota">>, Website |-> "metrotoyota.com",
      kind |-> "live"],
     [DealershipName |-> <<"acme", "motors">>, Website |-> "acmemotors.com",
      kind |-> "live_noscrape"],
     [DealershipName |-> <<"harbor", "lexus">>, Website |-> "harborlexus.com",
      kind |-> "dead"],
     [DealershipName |-> <<"lakeside", "ford">>, Website |-> "lakesideford.com",
      kind |-> "timeout"],
     [DealershipName |-> <<"valley", "autos">>, Website |-> "valleyautos.com",
      kind |-> "refused"]}

\* the exception requests.head / requests.get raise for the row (None: a
\* response arrives)
LivenessError(row) ==
    IF row.kind = "timeout" THEN "ConnectTimeout"
    ELSE IF row.kind = "refused" THEN "ConnectionError"
    ELSE None

\* the exception every ContactExtractor.extract_contacts call ends with
\* (None: it returns the contacts)
ExtractionError(row) == IF row.kind = "live_noscrape" THEN "TimeoutException" ELSE None

\* handle_network_error for the exceptions of LivenessError
handle_network_error(e) == e \in {"ConnectTimeout", "ReadTimeout", "ConnectionError"}

\* the wrapper's `while True` loop around a function whose every attempt
\* raises e, the function's own except clause having recorded e against
\* inner_key first (None: it records nothing): the tracker the call leaves
RECURSIVE retry_raising(_, _, _, _, _, _, _)
retry_raising(T, key, max_retries, retries, e, inner_key, t) ==
    LET T1 == IF inner_key = None THEN T ELSE record_error(T, inner_key, e, t)
    IN IF IsRetryException(e)
       THEN IF GivesUp(retries + 1, max_retries)
            THEN record_error(T1, key, e, t)
            ELSE retry_raising(T1, key, max_retries, retries + 1, e, inner_key, t)
       ELSE record_error(T1, key, e, t)

\* self.verify_url(url, resource_key=domain): the keyword is resource_key, so
\* the wrapper's key is the function's name; raised is the exception the call
\* ends with (None: it returned is_active)
verify_url(T, row, t) ==
    LET c == check_circuit(T, "verify_url", t) IN
    IF c.ret
    THEN [raised |-> "CircuitOpenException", is_active |-> FALSE, T |-> c.T]
    ELSE LET d == check_circuit(c.T, row.Website, t)
             e == LivenessError(row)
         IN IF d.ret THEN [raised |-> None, is_active |-> FALSE, T |-> d.T]
            ELSE IF e = None
            THEN [raised |-> None, is_active |-> row.kind \in {"live", "live_noscrape"},
                  T |-> d.T]
            ELSE [raised |-> e, is_active |-> FALSE,
                  T |-> retry_raising(d.T, "verify_url", 3, 0, e,
                                      IF handle_network_error(e) THEN None
                                      ELSE row.Website, t)]

\* self.scrape_contacts(final_url): every failed attempt records the error
\* against the domain before the wrapper sees it
scrape_contacts(T, row, t) ==
    LET c == check_circuit(T, "scrape_contacts", t)
        e == ExtractionError(row)
    IN IF c.ret THEN [raised |-> "CircuitOpenException", T |-> c.T]
       ELSE IF e = None THEN [raised |-> None, T |-> c.T]
       ELSE [raised |-> e,
             T |-> retry_raising(c.T, "scrape_contacts", 2, 0, e, row.Website, t)]

\* manufacturer_data, two of its entries
manufacturer_data ==
    [m \in {"Toyota", "Ford"} |->
        IF m = "Toyota" THEN {"toyota", "lexus"} ELSE {"ford", "lincoln"}]

\* identify_manufacturer: the first manufacturer with a keyword in the name
\* (the names above hold at most one), "Other" without a match
identify_manufacturer(row) ==
    LET name == {row.DealershipName[i] : i \in DOMAIN row.DealershipName}
        matches == {m \in DOMAIN manufacturer_data : manufacturer_data[m] \cap name # {}}
    IN IF matches # {} THEN CHOOSE m \in matches : TRUE ELSE "Other"

\* JobProgress held by a verifier constructed without a checkpoint
NewProgress ==
    [total_processed |-> 0, active_websites |-> 0, manufacturer_counts |-> EmptyDict,
     failed_dealerships |-> <<>>, job_id |-> None]

\* the dict save_progress builds under progress_lock: the counters by value,
\* manufacturer_counts and failed_dealerships by reference
progress_dict(P) ==
    [total_processed |-> P.total_processed, active_websites |-> P.active_websites,
     job_id |-> P.job_id]

\* json.dump(progress, f): the two containers are read when they are serialized
json_dump(progress, P) ==
    [total_processed |-> progress.total_processed,
     active_websites |-> progress.active_websites,
     manufacturer_counts |-> P.manufacturer_counts,
     failed_dealerships |-> P.failed_dealerships,
     job_id |-> progress.job_id]

\* the locals of process_batch: rows holds the rows taken from the batch so
\* far, raised the exception that ended each of them (None: none)
IdleBatch ==
    [pc |-> "idle", size |-> 0, rows |-> <<>>, raised |-> <<>>, is_active |-> FALSE,
     extraction |-> "none", results |-> <<>>, failed_in_batch |-> <<>>,
     stopped |-> FALSE]

\* ProcessSupervisor after DealershipVerifier.__init__ registered its cleanup
NewSupervisor ==
    [is_shutting_down |-> FALSE, active_threads |-> {}, executors |-> {},
     cleanup_handlers |-> <<"cleanup">>]

InitOrchestrator ==
    /\ prog = NewProgress
    /\ bw = IdleBatch
    /\ snapshot = <<>>
    /\ sup = NewSupervisor

\* process_batch is entered with a batch of n rows
BatchStart(n) ==
    /\ bw.pc = "idle"
    /\ bw' = [IdleBatch EXCEPT !.pc = "head", !.size = n]
    /\ UNCHANGED <<prog, snapshot, sup>>
    /\ UNCHANGED <<resilience_vars, coordinator_vars, run_vars, guard_vars, calls_vars, extraction_vars, worker_vars>>

\* head of the loop: the shutdown check, then the next row of the batch
RecordHead(row) ==
    /\ bw.pc = "head"
    /\ bw' = IF sup.is_shutting_down /\ Len(bw.rows) < bw.size
             THEN [bw EXCEPT !.pc = "end", !.stopped = TRUE]
             ELSE IF Len(bw.rows) < bw.size
             THEN [bw EXCEPT !.pc = "verify", !.rows = Append(@, row),
                             !.raised = Append(@, None), !.is_active = FALSE,
                             !.extraction = "none"]
             ELSE [bw EXCEPT !.pc = "end"]
    /\ UNCHANGED <<prog, snapshot, sup>>
    /\ UNCHANGED <<resilience_vars, coordinator_vars, run_vars, guard_vars, calls_vars, extraction_vars, worker_vars>>

\* failed_in_batch.append(failed_record) losing the record
record_failure_dropped(failed_in_batch, i, e) == failed_in_batch

\* the except clause of the loop body: the failed record of row i
record_failure(failed_in_batch, i, e) == Append(failed_in_batch, [row |-> i, Error |-> e])

\* check_circuit(domain), then verify_url; an exception ends the row
VerifyRow ==
    /\ bw.pc = "verify"
    /\ LET i == Len(bw.rows)
           row == bw.rows[i]
           c == check_circuit(tracker, row.Website, now)
           v == IF c.ret THEN [raised |-> None, is_active |-> FALSE, T |-> c.T]
                ELSE verify_url(c.T, row, now)
       IN /\ tracker' = v.T
          /\ bw' = IF v.raised # None
                   THEN [bw EXCEPT !.pc = "head", !.raised[i] = v.raised,
                            !.failed_in_batch = record_failure(@, i, v.raised)]
                   ELSE [bw EXCEPT !.pc = IF v.is_active THEN "active" ELSE "classify",
                                   !.is_active = v.is_active]
    /\ last_call' = NoCall
    /\ UNCHANGED <<now, w>>
    /\ UNCHANGED <<prog, snapshot, sup>>
    /\ UNCHANGED <<coordinator_vars, run_vars, guard_vars, calls_vars, extraction_vars, worker_vars>>

\* with self.progress_lock: self.active_websites += 1
IncActive ==
    /\ bw.pc = "active"
    /\ prog' = [prog EXCEPT !.active_websites = @ + 1]
    /\ bw' = [bw EXCEPT !.pc = "scrape"]
    /\ UNCHANGED <<snapshot, sup>>
    /\ UNCHANGED <<resilience_vars, coordinator_vars, run_vars, guard_vars, calls_vars, extraction_vars, worker_vars>>

\* scrape_contacts(final_url); both except clauses give contacts = []
ScrapeRow ==
    /\ bw.pc = "scrape"
    /\ LET row == bw.rows[Len(bw.rows)]
           x == scrape_contacts(tracker, row, now)
       IN /\ tracker' = x.T
          /\ bw' = [bw EXCEPT !.pc = "classify",
                              !.extraction = IF x.raised = None THEN "returned"
                                             ELSE IF x.raised = "CircuitOpenException"
                                             THEN "refused" ELSE "raised"]
    /\ last_call' = NoCall
    /\ UNCHANGED <<now, w>>
    /\ UNCHANGED <<prog, snapshot, sup>>
    /\ UNCHANGED <<coordinator_vars, run_vars, guard_vars, calls_vars, extraction_vars, worker_vars>>

\* identify_manufacturer(row), then the tally under progress_lock
ClassifyRow ==
    /\ bw.pc = "classify"
    /\ LET manufacturer == identify_manufacturer(bw.rows[Len(bw.rows)])
           n == IF manufacturer \in DOMAIN prog.manufacturer_counts
                THEN prog.manufacturer_counts[manufacturer] ELSE 0
       IN prog' = [prog EXCEPT !.manufacturer_counts = DictSet(@, manufacturer, n + 1)]
    /\ bw' = [bw EXCEPT !.pc = "count"]
    /\ UNCHANGED <<snapshot, sup>>
    /\ UNCHANGED <<resilience_vars, coordinator_vars, run_vars, guard_vars, calls_vars, extraction_vars, worker_vars>>

\* results.append(result), then total_processed += 1 under progress_lock
CountRow ==
    /\ bw.pc = "count"
    /\ LET i == Len(bw.rows) IN
       bw' = [bw EXCEPT !.pc = "head",
                        !.results = Append(@, [row |-> i, IsActive |-> bw.is_active])]
    /\ prog' = [prog EXCEPT !.total_processed = @ + 1]
    /\ UNCHANGED <<snapshot, sup>>
    /\ UNCHANGED <<resilience_vars, coordinator_vars, run_vars, guard_vars, calls_vars, extraction_vars, worker_vars>>

\* after the loop: failed_dealerships.extend(failed_in_batch), return results
BatchEnd ==
    /\ bw.pc = "end"
    /\ prog' = IF bw.failed_in_batch # <<>>
               THEN [prog EXCEPT !.failed_dealerships = @ \o bw.failed_in_batch]
               ELSE prog
    /\ bw' = [bw EXCEPT !.pc = "returned"]
    /\ UNCHANGED <<snapshot, sup>>
    /\ UNCHANGED <<resilience_vars, coordinator_vars, run_vars, guard_vars, calls_vars, extraction_vars, worker_vars>>

\* another thread in save_progress: the dict built under progress_lock
SnapshotBuild ==
    /\ bw.pc \notin {"idle", "returned"}
    /\ snapshot' = <<[pc |-> "built", progress |-> progress_dict(prog)]>>
    /\ snapshot' # snapshot
    /\ UNCHANGED <<prog, bw, sup>>
    /\ UNCHANGED <<resilience_vars, coordinator_vars, run_vars, guard_vars, calls_vars, extraction_vars, worker_vars>>

\* the same thread later, at json.dump
SnapshotDump ==
    /\ snapshot # <<>>
    /\ snapshot[1].pc = "built"
    /\ snapshot' = <<[pc |-> "dumped", doc |-> json_dump(snapshot[1].progress, prog)]>>
    /\ UNCHANGED <<prog, bw, sup>>
    /\ UNCHANGED <<resilience_vars, coordinator_vars, run_vars, guard_vars, calls_vars, extraction_vars, worker_vars>>

\* the supervisor's flag is set while the batch runs (is_shutting_down.set())
ShutdownFlagSet ==
    /\ bw.pc \notin {"idle", "returned"}
    /\ ~sup.is_shutting_down
    /\ sup' = [sup EXCEPT !.is_shutting_down = TRUE]
    /\ UNCHANGED <<prog, bw, snapshot>>
    /\ UNCHANGED <<resilience_vars, coordinator_vars, run_vars, guard_vars, calls_vars, extraction_vars, worker_vars>>

NextBatch ==
    \/ \E n \in 1..MaxBatch : BatchStart(n)
    \/ \E row \in Rows : RecordHead(row)
    \/ VerifyRow
    \/ IncActive
    \/ ScrapeRow
    \/ ClassifyRow
    \/ CountRow
    \/ BatchEnd
    \/ SnapshotBuild
    \/ SnapshotDump
    \/ ShutdownFlagSet

(***************************************************************************)
(* Orchestrator: one run of process_dealerships                            *)
(*   the main thread, the signal handlers that interrupt it, the progress  *)
(*   monitor, the workers of the executor, and the checkpoint file         *)
(***************************************************************************)
\* largest number of batches the input file is cut into
NumBatches == 1
\* rows of one batch
RunBatchSize == 1
\* termination signals delivered, over all the processes
MaxSignals == 2
\* periodic saves of the progress monitor, over all the processes
MaxMonitorSaves == 1
\* processes started after the first one
MaxRestarts == 1
\* writes of the checkpoint or of the final results that raise, over all the
\* processes
MaxIOErrors == 1

\* the save_interval values the verifier is constructed with
SaveIntervals == {1, 2}

\* what the actions of a run leave alone
outside_run == <<resilience_vars, coordinator_vars, batch_vars, guard_vars, calls_vars, extraction_vars, worker_vars>>

\* who can be inside save_progress: the main thread (completion loop), the
\* cleanup handler (called by initiate_shutdown on the main thread, in a
\* signal handler) and the progress monitor thread
Savers == {"main", "handler", "monitor"}

\* a save_progress call that is not running
NoSave == [pc |-> "off", progress |-> <<>>]

\* a batch of the input: new, submitted (queued in the executor, or at the
\* head of process_batch's loop), inside a row, done
NewTask == [st |-> "new", pos |-> 0, results |-> 0, collected |-> FALSE]

\* the job id a process creates (str(int(time.time())))
NewJobId(restarts) == IF restarts = 0 THEN "job-1" ELSE "job-2"

\* a process after DealershipVerifier.__init__, before process_dealerships
NewRun(restarts, signals, mon_saves, io_errors) ==
    [pc |-> "constructed", nb |-> 0, save_interval |-> 1, submitted |-> 0,
     collected |-> 0, results |-> 0,
     hs |-> <<>>, signals |-> signals, mon |-> "unstarted", mon_saves |-> mon_saves,
     stop_event |-> FALSE, executor |-> "none",
     batches |-> [b \in 1..NumBatches |-> NewTask],
     sp |-> [c \in Savers |-> NoSave], restarts |-> restarts,
     cleanup_runs |-> 0, executor_shutdowns |-> 0, sd_raised |-> FALSE,
     io_errors |-> io_errors, write_failed |-> FALSE]

\* no checkpoint, no temporary file, the lock file free
NoFiles == [file |-> <<>>, tmp |-> <<>>, lock |-> None]

InitRun ==
    /\ run = NewRun(0, 0, 0, 0)
    /\ ckpt = NoFiles

\* load_progress ignoring the checkpoint
load_progress_fresh(file) == NewProgress

\* load_progress: the checkpoint's fields, the defaults when the file is
\* missing or cannot be parsed
load_progress(file) ==
    IF file = <<>> \/ ~file[1].complete THEN NewProgress
    ELSE [total_processed |-> file[1].doc.total_processed,
          active_websites |-> file[1].doc.active_websites,
          manufacturer_counts |-> file[1].doc.manufacturer_counts,
          failed_dealerships |-> file[1].doc.failed_dealerships,
          job_id |-> file[1].doc.job_id]

\* process_dealerships has returned, or has raised: the process ends
MainEnded == run.pc \in {"returned", "raised"}

\* the main thread runs its own code (no signal handler is on its stack)
MainRuns == run.hs = <<>> /\ ~MainEnded

\* the innermost signal handler
Top == run.hs[Len(run.hs)]
SetTop(pc) == [run.hs EXCEPT ![Len(run.hs)] = pc]
Pop == SubSeq(run.hs, 1, Len(run.hs) - 1)

(* ------------------------- save_progress ------------------------------ *)
\* the caller c is inside save_progress and is scheduled
InSave(c) ==
    /\ run.sp[c].pc # "off"
    /\ IF c = "main" THEN MainRuns
       ELSE IF c = "handler" THEN run.hs # <<>> /\ Top = "cleanup"
       ELSE ~MainEnded

\* what the caller does when save_progress returns
after_save(r, c) ==
    IF c = "main" THEN [r EXCEPT !.sp[c] = NoSave, !.pc = "collect"]
    ELSE IF c = "handler"
    THEN [r EXCEPT !.sp[c] = NoSave, !.stop_event = TRUE,
                   !.hs = [r.hs EXCEPT ![Len(r.hs)] = "executors"]]
    ELSE [r EXCEPT !.sp[c] = NoSave, !.mon = "loop"]

\* with self.progress_lock: progress = {...}
SP_Build(c) ==
    /\ InSave(c) /\ run.sp[c].pc = "build"
    /\ run' = [run EXCEPT !.sp[c] = [pc |-> "lock", progress |-> <<progress_dict(prog)>>]]
    /\ UNCHANGED <<prog, sup, ckpt>>
    /\ UNCHANGED outside_run

\* a FileLock that excludes nobody
FileLockFree_always(lock) == lock = lock

\* FileLock(progress_lock_file) can be acquired: no other FileLock object
\* holds the lock file
FileLockFree(lock) == lock = None

\* with FileLock(self.progress_lock_file): blocks until the lock file is
\* free; then open(temp_file, 'w'): the temporary file exists and is empty
SP_Lock(c) ==
    /\ InSave(c) /\ run.sp[c].pc = "lock"
    /\ FileLockFree(ckpt.lock)
    /\ ckpt' = [ckpt EXCEPT !.lock = c, !.tmp = <<[complete |-> FALSE]>>]
    /\ run' = [run EXCEPT !.sp[c].pc = "dump"]
    /\ UNCHANGED <<prog, sup>>
    /\ UNCHANGED outside_run

\* json.dump(progress, f) and the close of the temporary file
SP_Dump(c) ==
    /\ InSave(c) /\ run.sp[c].pc = "dump"
    /\ ckpt' = [ckpt EXCEPT !.tmp = <<[complete |-> TRUE,
                                       doc |-> json_dump(run.sp[c].progress[1], prog)]>>]
    /\ run' = [run EXCEPT !.sp[c].pc = "replace"]
    /\ UNCHANGED <<prog, sup>>
    /\ UNCHANGED outside_run

\* open(temp_file, 'w') or json.dump raises (OSError: the disk is full, the
\* directory is gone): the with blocks release the lock and leave the
\* temporary file as it is, `except Exception` logs "Error saving progress"
\* and save_progress returns to its caller
SP_DumpFails(c) ==
    /\ InSave(c) /\ run.sp[c].pc = "dump"
    /\ run.io_errors < MaxIOErrors
    /\ ckpt' = [ckpt EXCEPT !.lock = IF @ = c THEN None ELSE @]
    /\ run' = after_save([run EXCEPT !.io_errors = @ + 1, !.write_failed = TRUE], c)
    /\ UNCHANGED <<prog, sup>>
    /\ UNCHANGED outside_run

\* os.replace(temp_file, progress_file), the lock released, the return
SP_Replace(c) ==
    /\ InSave(c) /\ run.sp[c].pc = "replace"
    /\ ckpt' = [file |-> ckpt.tmp, tmp |-> <<>>,
                lock |-> IF ckpt.lock = c THEN None ELSE ckpt.lock]
    /\ run' = after_save(run, c)
    /\ UNCHANGED <<prog, sup>>
    /\ UNCHANGED outside_run

(* ------------------------- the main thread ---------------------------- *)
\* register_thread("main_process"), the job id
M_Register ==
    /\ MainRuns /\ run.pc = "constructed"
    /\ sup' = [sup EXCEPT !.active_threads = @ \cup {"main_process"}]
    /\ prog' = IF prog.job_id = None
               THEN [prog EXCEPT !.job_id = NewJobId(run.restarts)] ELSE prog
    /\ run' = [run EXCEPT !.pc = "prepared"]
    /\ UNCHANGED ckpt
    /\ UNCHANGED outside_run

\* the input file is read (nb batches; the verifier was constructed with
\* save_interval si), the monitor thread registered and started, the
\* supervised executor created
M_StartWorkers(nb, si) ==
    /\ MainRuns /\ run.pc = "prepared"
    /\ sup' = [sup EXCEPT !.active_threads = @ \cup {"progress_monitor"},
                          !.executors = @ \cup {"dealer_batch"}]
    /\ run' = [run EXCEPT !.pc = "submit_check", !.nb = nb, !.save_interval = si,
                          !.mon = "loop",
                          !.executor = "running"]
    /\ UNCHANGED <<prog, ckpt>>
    /\ UNCHANGED outside_run

\* the submission loop never looking at the supervisor
StopSubmitting_never(is_shutting_down) == FALSE

\* `if self.process_supervisor.is_shutdown_requested(): break`
StopSubmitting(is_shutting_down) == is_shutting_down

\* head of the submission loop
M_SubmitCheck ==
    /\ MainRuns /\ run.pc = "submit_check"
    /\ run' = IF run.submitted < run.nb /\ ~StopSubmitting(sup.is_shutting_down)
              THEN [run EXCEPT !.pc = "submit"]
              ELSE [run EXCEPT !.pc = "collect"]
    /\ UNCHANGED <<prog, sup, ckpt>>
    /\ UNCHANGED outside_run

\* executor.submit(self.process_batch, batch): RuntimeError once the
\* executor has been shut down
M_Submit ==
    /\ MainRuns /\ run.pc = "submit"
    /\ run' = IF run.executor = "shutdown"
              THEN [run EXCEPT !.pc = "abort"]
              ELSE [run EXCEPT !.pc = "submit_check", !.submitted = @ + 1,
                               !.batches[run.submitted + 1].st = "head"]
    /\ UNCHANGED <<prog, sup, ckpt>>
    /\ UNCHANGED outside_run

\* len(results) % save_interval == 0 or completed_batches % 5 == 0
SavesNow(results, completed_batches, save_interval) ==
    results % save_interval = 0 \/ completed_batches % 5 = 0

\* as_completed yields the future of batch b: its results are collected and
\* the progress saved when the condition holds
M_Collect(b) ==
    /\ MainRuns /\ run.pc = "collect"
    /\ run.batches[b].st = "done" /\ ~run.batches[b].collected
    /\ LET results == run.results + run.batches[b].results
           completed_batches == run.collected + 1
           r == [run EXCEPT !.results = results, !.collected = completed_batches,
                            !.batches[b].collected = TRUE]
       IN run' = IF SavesNow(results, completed_batches, run.save_interval)
                 THEN [r EXCEPT !.pc = "saving", !.sp["main"].pc = "build"]
                 ELSE r
    /\ UNCHANGED <<prog, sup, ckpt>>
    /\ UNCHANGED outside_run

\* every future has been yielded: the executor's with block ends, the final
\* results are saved, the finally clause sets stop_event. When a write of
\* save_final_results raises, save_final_results logs and re-raises, and the
\* `except Exception` around the call logs "Error saving final results":
\* process_dealerships goes on to its completion message and returns
M_Finish(write_raises) ==
    /\ MainRuns /\ run.pc = "collect"
    /\ run.collected = run.submitted
    /\ write_raises => run.io_errors < MaxIOErrors
    /\ run' = [run EXCEPT !.pc = "returned", !.executor = "shutdown",
                          !.stop_event = TRUE,
                          !.io_errors = IF write_raises THEN @ + 1 ELSE @,
                          !.write_failed = @ \/ write_raises]
    /\ UNCHANGED <<prog, sup, ckpt>>
    /\ UNCHANGED outside_run

\* an exception leaves the try block: the executor's with block waits for
\* the submitted batches, the finally clause runs, the exception is raised
M_Abort ==
    /\ MainRuns /\ run.pc = "abort"
    /\ \A b \in 1..NumBatches : run.batches[b].st \in {"new", "done"}
    /\ run' = [run EXCEPT !.pc = "raised", !.stop_event = TRUE,
                          !.executor = IF @ = "none" THEN @ ELSE "shutdown"]
    /\ UNCHANGED <<prog, sup, ckpt>>
    /\ UNCHANGED outside_run

(* ------------------------- the workers -------------------------------- *)
\* `if self.process_supervisor.is_shutdown_requested(): break`
StopBatch(is_shutting_down) == is_shutting_down

\* a worker at the head of process_batch's loop (the first time, after it
\* took the batch from the executor's queue): the next row is started, or
\* the batch ends
W_Head(b) ==
    /\ ~MainEnded
    /\ run.batches[b].st = "head"
    /\ run' = IF run.batches[b].pos < RunBatchSize /\ ~StopBatch(sup.is_shutting_down)
              THEN [run EXCEPT !.batches[b].st = "row", !.batches[b].pos = @ + 1]
              ELSE [run EXCEPT !.batches[b].st = "done"]
    /\ UNCHANGED <<prog, sup, ckpt>>
    /\ UNCHANGED outside_run

\* the body of the loop for a live row: the three updates of the counters
W_Row(b) ==
    /\ ~MainEnded
    /\ run.batches[b].st = "row"
    /\ LET n == IF "Other" \in DOMAIN prog.manufacturer_counts
                THEN prog.manufacturer_counts["Other"] ELSE 0
       IN prog' = [prog EXCEPT !.active_websites = @ + 1,
                               !.manufacturer_counts = DictSet(@, "Other", n + 1),
                               !.total_processed = @ + 1]
    /\ run' = [run EXCEPT !.batches[b].st = "head", !.batches[b].results = @ + 1]
    /\ UNCHANGED <<sup, ckpt>>
    /\ UNCHANGED outside_run

(* ------------------------- the progress monitor ----------------------- *)
\* `while not self.stop_event.is_set()`: the loop ends
Mon_Exit ==
    /\ ~MainEnded
    /\ run.mon = "loop" /\ run.stop_event
    /\ run' = [run EXCEPT !.mon = "exited"]
    /\ UNCHANGED <<prog, sup, ckpt>>
    /\ UNCHANGED outside_run

\* thirty seconds have elapsed since the last save: save_progress()
Mon_Save ==
    /\ ~MainEnded
    /\ run.mon = "loop" /\ ~run.stop_event
    /\ run.mon_saves < MaxMonitorSaves
    /\ run' = [run EXCEPT !.mon = "saving", !.mon_saves = @ + 1,
                          !.sp["monitor"].pc = "build"]
    /\ UNCHANGED <<prog, sup, ckpt>>
    /\ UNCHANGED outside_run

(* ------------------------- shutdown ----------------------------------- *)
\* SIGINT or SIGTERM is delivered: the main thread runs _handle_signal on
\* top of whatever it was running
Signal ==
    /\ ~MainEnded
    /\ run.signals < MaxSignals
    /\ run' = [run EXCEPT !.signals = @ + 1, !.hs = Append(@, "check")]
    /\ UNCHANGED <<prog, sup, ckpt>>
    /\ UNCHANGED outside_run

\* `if self.is_shutting_down.is_set(): return`
SD_Check ==
    /\ run.hs # <<>> /\ Top = "check"
    /\ run' = IF sup.is_shutting_down THEN [run EXCEPT !.hs = Pop]
              ELSE [run EXCEPT !.hs = SetTop("set")]
    /\ UNCHANGED <<prog, sup, ckpt>>
    /\ UNCHANGED outside_run

\* self.is_shutting_down.set(), then the first cleanup handler is called:
\* DealershipVerifier.cleanup enters save_progress
SD_Set ==
    /\ run.hs # <<>> /\ Top = "set"
    /\ sup' = [sup EXCEPT !.is_shutting_down = TRUE]
    /\ run' = [run EXCEPT !.hs = SetTop("cleanup"), !.cleanup_runs = @ + 1,
                          !.sp["handler"] = [pc |-> "build", progress |-> <<>>]]
    /\ UNCHANGED <<prog, ckpt>>
    /\ UNCHANGED outside_run

\* executor.shutdown(wait=False) for every registered executor
SD_Executors ==
    /\ run.hs # <<>> /\ Top = "executors"
    /\ run' = [run EXCEPT !.hs = SetTop("join"),
                          !.executor = IF sup.executors # {} THEN "shutdown" ELSE @,
                          !.executor_shutdowns = @ + Cardinality(sup.executors)]
    /\ UNCHANGED <<prog, sup, ckpt>>
    /\ UNCHANGED outside_run

\* where the RuntimeError of thread.join lands in the code the handlers
\* interrupted: save_progress catches it and returns, every other point of
\* process_dealerships leaves the try block
land_exception(r, lock) ==
    IF r.pc = "saving"
    THEN [r EXCEPT !.hs = <<>>, !.sd_raised = TRUE, !.pc = "collect", !.sp["main"] = NoSave]
    ELSE [r EXCEPT !.hs = <<>>, !.sd_raised = TRUE, !.pc = "abort"]

\* the join loop: joining the current thread raises RuntimeError; any other
\* live thread is waited for during at most the timeout
SD_Join ==
    /\ run.hs # <<>> /\ Top = "join"
    /\ IF "main_process" \in sup.active_threads
       THEN /\ run' = land_exception(run, ckpt.lock)
            /\ ckpt' = IF run.pc = "saving" /\ ckpt.lock = "main"
                       THEN [ckpt EXCEPT !.lock = None] ELSE ckpt
       ELSE /\ run' = [run EXCEPT !.hs = Pop]
            /\ UNCHANGED ckpt
    /\ UNCHANGED <<prog, sup>>
    /\ UNCHANGED outside_run

(* ------------------------- the next process --------------------------- *)
\* the process dies (at any point, or after its run ended) and the
\* orchestrator is started again: the lock file's lock is gone with the
\* process, the files stay, __init__ loads the checkpoint
ProcessRestart ==
    /\ run.restarts < MaxRestarts
    /\ run' = NewRun(run.restarts + 1, run.signals, run.mon_saves, run.io_errors)
    /\ prog' = load_progress(ckpt.file)
    /\ sup' = NewSupervisor
    /\ ckpt' = [ckpt EXCEPT !.lock = None]
    /\ UNCHANGED outside_run

NextRun ==
    \/ \E c \in Savers : SP_Build(c)
    \/ \E c \in Savers : SP_Lock(c)
    \/ \E c \in Savers : SP_Dump(c)
    \/ \E c \in Savers : SP_DumpFails(c)
    \/ \E c \in Savers : SP_Replace(c)
    \/ M_Register
    \/ \E nb \in 1..NumBatches, si \in SaveIntervals : M_StartWorkers(nb, si)
    \/ M_SubmitCheck
    \/ M_Submit
    \/ \E b \in 1..NumBatches : M_Collect(b)
    \/ \E write_raises \in BOOLEAN : M_Finish(write_raises)
    \/ M_Abort
    \/ \E b \in 1..NumBatches : W_Head(b)
    \/ \E b \in 1..NumBatches : W_Row(b)
    \/ Mon_Exit
    \/ Mon_Save
    \/ Signal
    \/ SD_Check
    \/ SD_Set
    \/ SD_Executors
    \/ SD_Join
    \/ ProcessRestart

(***************************************************************************)
(* ResourceGuard                                                           *)
(***************************************************************************)
\* resources registered with add_resource on one guard
MaxAdded == 2
\* explicit release() calls on one guard
MaxReleases == 2

ResourceNames == {"driver", "extractor"}

\* no guard constructed yet
NoGuard ==
    [pc |-> "none", resources |-> <<>>, cleanup_func |-> FALSE, released |-> FALSE,
     initial |-> <<>>, added |-> <<>>, before |-> 0, releases |-> 0, calls |-> <<>>,
     exit |-> "none"]

InitGuard == guard = NoGuard

\* ResourceGuard(resources, cleanup_func) entered by a with statement;
\* initial and added keep what was passed to the constructor and to
\* add_resource, before how many additions preceded the first release
GuardEnter(resources, has_cleanup) ==
    /\ guard.pc = "none"
    /\ guard' = [NoGuard EXCEPT !.pc = "scope", !.resources = resources,
                                !.cleanup_func = has_cleanup, !.initial = resources]
    /\ UNCHANGED <<resilience_vars, coordinator_vars, orchestrator_vars, calls_vars, extraction_vars, worker_vars>>

\* add_resource(resource)
AddResource(resource) ==
    /\ guard.pc # "none"
    /\ Len(guard.added) < MaxAdded
    /\ guard' = [guard EXCEPT !.resources = Append(@, resource),
                              !.added = Append(@, resource)]
    /\ UNCHANGED <<resilience_vars, coordinator_vars, orchestrator_vars, calls_vars, extraction_vars, worker_vars>>

\* release() without the released flag
release_unguarded(g) ==
    [g EXCEPT !.released = TRUE,
              !.calls = IF g.cleanup_func THEN Append(@, g.resources) ELSE @,
              !.before = IF g.released THEN @ ELSE Len(g.added)]

\* release(): the callback is called with self.resources unless the guard
\* was released before; an exception of the callback is logged
release(g) ==
    IF g.released THEN g
    ELSE [g EXCEPT !.released = TRUE,
                   !.calls = IF g.cleanup_func THEN Append(@, g.resources) ELSE @,
                   !.before = Len(g.added)]

\* an explicit release() call
Release ==
    /\ guard.pc # "none"
    /\ guard.releases < MaxReleases
    /\ guard' = [release(guard) EXCEPT !.releases = @ + 1]
    /\ UNCHANGED <<resilience_vars, coordinator_vars, orchestrator_vars, calls_vars, extraction_vars, worker_vars>>

\* the with block is left (normally, by an exception, by a return): __exit__
GuardExit(how) ==
    /\ guard.pc = "scope"
    /\ guard' = [release(guard) EXCEPT !.pc = "exited", !.exit = how]
    /\ UNCHANGED <<resilience_vars, coordinator_vars, orchestrator_vars, calls_vars, extraction_vars, worker_vars>>

NextGuard ==
    \/ \E resources \in Lists(ResourceNames, 1), has_cleanup \in BOOLEAN :
          GuardEnter(resources, has_cleanup)
    \/ \E resource \in ResourceNames : AddResource(resource)
    \/ Release
    \/ \E how \in {"normal", "exception", "return"} : GuardExit(how)

(***************************************************************************)
(* Calls of the verifier's decorated methods, one after the other, as      *)
(* process_batch makes them for the rows it is given                       *)
(***************************************************************************)
\* largest number of calls followed
MaxCalls == 6

\* no call made yet; own_errors is the number of errors the tracker held
\* for the call's domain when the call was made
NoDomainCall ==
    [op |-> "none", domain |-> None, raised |-> None, own_errors |-> 0, n |-> 0]

InitCalls == dc = NoDomainCall

\* process_batch's liveness step for a row: check_circuit(domain), then
\* self.verify_url(url, resource_key=domain)
CallVerifyUrl(row) ==
    /\ dc.n < MaxCalls
    /\ LET c == check_circuit(tracker, row.Website, now)
           v == IF c.ret THEN [raised |-> None, is_active |-> FALSE, T |-> c.T]
                ELSE verify_url(c.T, row, now)
       IN /\ tracker' = v.T
          /\ dc' = [op |-> IF c.ret THEN "skipped" ELSE "verify_url",
                    domain |-> row.Website, raised |-> v.raised,
                    own_errors |-> total_errors(tracker, row.Website),
                    n |-> dc.n + 1]
    /\ last_call' = NoCall
    /\ UNCHANGED <<now, w>>
    /\ UNCHANGED <<coordinator_vars, orchestrator_vars, guard_vars, extraction_vars, worker_vars>>

\* process_batch's extraction step for a row whose website is active:
\* self.scrape_contacts(final_url)
CallScrapeContacts(row) ==
    /\ dc.n < MaxCalls
    /\ row.kind \in {"live", "live_noscrape"}
    /\ LET x == scrape_contacts(tracker, row, now)
       IN /\ tracker' = x.T
          /\ dc' = [op |-> "scrape_contacts", domain |-> row.Website,
                    raised |-> x.raised,
                    own_errors |-> total_errors(tracker, row.Website),
                    n |-> dc.n + 1]
    /\ last_call' = NoCall
    /\ UNCHANGED <<now, w>>
    /\ UNCHANGED <<coordinator_vars, orchestrator_vars, guard_vars, extraction_vars, worker_vars>>

NextCalls ==
    \/ \E row \in Rows : CallVerifyUrl(row)
    \/ \E row \in Rows : CallScrapeContacts(row)
    \/ Tick(reset_interval + 1)

(***************************************************************************)
(* Contact validation: the email validators and phone formatters of        *)
(* contact_extractor.py, firecrawl_extractor_simple.py, staff_extractor.py *)
(* Texts are strings, read character by character.                         *)
(***************************************************************************)
\* most email candidates, and most phone candidates, on one page
MaxFoundEmails == 2
MaxFoundPhones == 1

LowerLetters == "abcdefghijklmnopqrstuvwxyz"
UpperLetters == "ABCDEFGHIJKLMNOPQRSTUVWXYZ"
DigitChars == "0123456789"

\* the characters of a string, as a set
CharsOf(s) == {SubSeq(s, i, i) : i \in 1..Len(s)}

\* str.lower()
RECURSIVE lower(_)
lower(s) ==
    IF Len(s) = 0 THEN ""
    ELSE LET c == Head(s)
             l == IF c \in CharsOf(UpperLetters)
                  THEN LET i == CHOOSE k \in 1..Len(UpperLetters) :
                                    SubSeq(UpperLetters, k, k) = c
                       IN SubSeq(LowerLetters, i, i)
                  ELSE c
         IN l \o lower(Tail(s))

\* pattern in s
Contains(s, pattern) ==
    \E i \in 1..(Len(s) - Len(pattern) + 1) : SubSeq(s, i, i + Len(pattern) - 1) = pattern

\* every character of s[a..b] is one of chars
AllIn(s, a, b, chars) == \A i \in a..b : SubSeq(s, i, i) \in chars

\* re.match(r'^[a-zA-Z0-9._%+-]+@[a-zA-Z0-9.-]+\.[a-zA-Z]{2,}$', email)
email_regex(email) ==
    LET letters == CharsOf(LowerLetters) \cup CharsOf(UpperLetters)
        alnum == letters \cup CharsOf(DigitChars)
    IN \E at \in 2..Len(email), dot \in 3..Len(email) :
          /\ SubSeq(email, at, at) = "@"
          /\ AllIn(email, 1, at - 1, alnum \cup CharsOf("._%+-"))
          /\ dot > at + 1
          /\ AllIn(email, at + 1, dot - 1, alnum \cup CharsOf(".-"))
          /\ SubSeq(email, dot, dot) = "."
          /\ Len(email) - dot >= 2
          /\ AllIn(email, dot + 1, Len(email), letters)

\* the deny-list of _validate_email
invalid_patterns ==
    {"example.com", "domain.com", "email@example", "yourdomain", "yourname", "@."}

\* ContactExtractor._validate_email, StaffExtractor._validate_email
validate_email(email) ==
    LET email_lower == lower(email) IN
    /\ Len(email) > 0 /\ Contains(email, "@")
    /\ ~\E pattern \in invalid_patterns : Contains(email_lower, pattern)
    /\ email_regex(email)

\* the filter of FirecrawlExtractor.extract_contacts
firecrawl_keeps(email) == ~Contains(email, "example.com")

\* re.sub(r'[^0-9]', '', phone)
RECURSIVE digits_of(_)
digits_of(phone) ==
    IF Len(phone) = 0 THEN ""
    ELSE (IF Head(phone) \in CharsOf(DigitChars) THEN Head(phone) ELSE "")
         \o digits_of(Tail(phone))

\* digits[-10:]
Last10(digits) == SubSeq(digits, Len(digits) - 9, Len(digits))

\* a value a formatter returns: None, or the phone
NoPhone == [ok |-> FALSE, phone |-> ""]
Phone(p) == [ok |-> TRUE, phone |-> p]

\* the digits of a tel: link, in _extract_phones and in
\* StaffExtractor._format_phone_number
format_digits(phone) ==
    LET digits == digits_of(phone) IN
    IF Len(digits) >= 10
    THEN IF Len(digits) = 10 THEN Phone(digits)
         ELSE IF Len(digits) = 11 /\ Head(digits) = "1" THEN Phone(Tail(digits))
         ELSE Phone(Last10(digits))
    ELSE NoPhone

\* a formatter of regex tuples that wants the area code
format_tuple_with_area(t) ==
    IF t[1] # "" /\ t[2] # "" /\ t[3] # "" THEN Phone(t[1] \o t[2] \o t[3]) ELSE NoPhone

\* _format_phone_number for the tuple of the phone pattern's three groups
format_tuple(t) ==
    IF t[1] = "" /\ t[2] # "" /\ t[3] # "" /\ Len(t[2]) = 3 /\ Len(t[3]) = 4
    THEN Phone(t[2] \o t[3])
    ELSE IF t[1] # "" /\ t[2] # "" /\ t[3] # "" THEN Phone(t[1] \o t[2] \o t[3])
    ELSE LET raw == t[1] \o t[2] \o t[3] IN
         IF Len(raw) >= 10 THEN Phone(Last10(raw)) ELSE NoPhone

\* re.match(r'^\d{10,11}$', phone) of _validate_contact_data
phone_valid(phone) == Len(phone) \in {10, 11} /\ digits_of(phone) = phone

\* the texts a page offers as email candidates
EmailTexts ==
    {"person@dealer.com", "sales@example.com", "info@domain.com", "Sales@Example.com",
     "not-an-email", "bob@dealer.c"}

\* the matches of the email pattern among them (re.findall, element text)
EmailMatches == {e \in EmailTexts : email_regex(e)}

\* the phone candidates: the value of a tel: link (form "str") or the three
\* groups of a match of the phone pattern, whose area-code group is optional
\* (form "tuple")
PhoneStr(s) == [form |-> "str", str |-> s, groups |-> <<>>]
PhoneTuple(a, b, c) == [form |-> "tuple", str |-> "", groups |-> <<a, b, c>>]
PhoneInputs ==
    {PhoneStr("12165551234"), PhoneStr("2165551234"), PhoneStr("5551234"),
     PhoneStr("+1 (216) 555-1234"), PhoneStr("0012165551234"),
     PhoneTuple("216", "555", "1234"), PhoneTuple("", "555", "1234")}

\* StaffExtractor._format_phone_number
staff_format_phone_number(input) ==
    IF input.form = "str" THEN format_digits(input.str) ELSE format_tuple(input.groups)

\* the set a list comprehension over l builds: keep(x) for the x that pass
SetOf(l, pass(_), keep(_)) == {keep(l[i]) : i \in {k \in DOMAIN l : pass(l[k])}}

\* nothing extracted yet
NoExtraction ==
    [pc |-> "idle", backend |-> "none", email_in |-> <<>>, phone_in |-> <<>>,
     emails |-> <<>>, phones |-> <<>>]

InitFmt == fmt = NoExtraction

\* ContactExtractor.extract_contacts on a page with these candidates:
\* _extract_emails, _extract_phones, then _validate_contact_data; the result
\* lists are made from sets
SeleniumExtract(email_in, phone_in) ==
    /\ fmt.pc = "idle"
    /\ LET found == SetOf(email_in, validate_email, lower)
           emails == {e \in found : validate_email(e)}
           formatted(x) == IF x.form = "str" THEN format_digits(x.str)
                           ELSE format_tuple(x.groups)
           accepted == {formatted(phone_in[i]).phone :
                           i \in {k \in DOMAIN phone_in : formatted(phone_in[k]).ok}}
           phones == {ph \in accepted : phone_valid(ph)}
       IN \E el \in ListsOfSet(emails), pl \in ListsOfSet(phones) :
             fmt' = [pc |-> "done", backend |-> "selenium", email_in |-> email_in,
                     phone_in |-> phone_in, emails |-> el, phones |-> pl]
    /\ UNCHANGED <<resilience_vars, coordinator_vars, orchestrator_vars, guard_vars,
                   calls_vars, scorer, worker_vars>>

\* list.append(x) unless x is in the list, for each x of xs in turn
RECURSIVE AppendNew(_, _)
AppendNew(l, xs) ==
    IF xs = <<>> THEN l
    ELSE AppendNew(IF \E i \in DOMAIN l : l[i] = Head(xs) THEN l ELSE Append(l, Head(xs)),
                   Tail(xs))

\* [f(x) for x in l if pass(x)]
Comprehension(l, pass(_), f(_)) ==
    LET kept == {i \in DOMAIN l : pass(l[i])}
        nth(k) == CHOOSE i \in kept : Cardinality({j \in kept : j <= i}) = k
    IN [k \in 1..Cardinality(kept) |-> f(l[nth(k)])]

\* FirecrawlExtractor.extract_contacts: the matches of the email pattern in
\* finalAnalysis, then those of one source; the phones with an area code
FirecrawlExtract(analysis, source, phone_in) ==
    /\ fmt.pc = "idle"
    /\ LET emails == Comprehension(analysis, firecrawl_keeps, lower)
           more == Comprehension(source, firecrawl_keeps, lower)
           tuples == SelectSeq(phone_in, LAMBDA x : x.form = "tuple")
           ok(x) == format_tuple_with_area(x.groups).ok
           ph(x) == format_tuple_with_area(x.groups).phone
       IN fmt' = [pc |-> "done", backend |-> "firecrawl",
                  email_in |-> analysis \o source, phone_in |-> tuples,
                  emails |-> AppendNew(emails, more),
                  phones |-> AppendNew(<<>>, Comprehension(tuples, ok, ph))]
    /\ UNCHANGED <<resilience_vars, coordinator_vars, orchestrator_vars, guard_vars,
                   calls_vars, scorer, worker_vars>>

\* the staff scorer reading one element: the first email that passes
\* _validate_email, the first phone _format_phone_number accepts
StaffContact(email_in, phone_in) ==
    /\ fmt.pc = "idle"
    /\ LET valid == SelectSeq(email_in, validate_email)
           ok(x) == staff_format_phone_number(x).ok
           ph(x) == staff_format_phone_number(x).phone
           formatted == Comprehension(phone_in, ok, ph)
       IN fmt' = [pc |-> "done", backend |-> "staff", email_in |-> email_in,
                  phone_in |-> phone_in,
                  emails |-> IF valid = <<>> THEN <<>> ELSE <<Head(valid)>>,
                  phones |-> IF formatted = <<>> THEN <<>> ELSE <<Head(formatted)>>]
    /\ UNCHANGED <<resilience_vars, coordinator_vars, orchestrator_vars, guard_vars,
                   calls_vars, scorer, worker_vars>>

NextContacts ==
    \/ \E email_in \in Lists(EmailTexts, MaxFoundEmails),
          phone_in \in Lists(PhoneInputs, MaxFoundPhones) :
          SeleniumExtract(email_in, phone_in)
    \/ \E analysis \in Lists(EmailMatches, MaxFoundEmails),
          source \in Lists(EmailMatches, 1),
          phone_in \in Lists(PhoneInputs, MaxFoundPhones) :
          FirecrawlExtract(analysis, source, phone_in)
    \/ \E email_in \in Lists(EmailTexts, MaxFoundEmails),
          phone_in \in Lists(PhoneInputs, MaxFoundPhones) :
          StaffContact(email_in, phone_in)

(***************************************************************************)
(* Staff scorer: StaffExtractor (staff_extractor.py)                       *)
(* A confidence is counted in halves: 4 is the score 2.0.                  *)
(***************************************************************************)
\* most single staff elements read before the deduplication
MaxStaffFound == 3
\* the number of cards of the large staff grid
MaxGrid == 21

\* _filter_and_limit_staff: the minimum confidence (2, in halves) and the cap
min_confidence == 4
max_staff == 20

\* the domain of the dealership's website
StaffDomain == "dealer.com"

\* Python truth value of a field of a candidate
Present(v) == v \notin {None, ""}

title_keywords ==
    {"manager", "director", "president", "owner", "ceo", "cfo", "sales", "service",
     "specialist", "advisor", "consultant", "finance", "general manager", "gm",
     "dealer", "principal"}

\* a staff element of a page, by what the selectors and patterns find in it:
\* the name (in a name element, or only in the text), the title (in a title
\* element, or in the text after the name), the email (a mailto link, or in
\* the text), the phone candidates and the photo
Element(name, name_in, title, title_in, email, email_in, phones, photo) ==
    [name |-> name, name_in |-> name_in, title |-> title, title_in |-> title_in,
     email |-> email, email_in |-> email_in, phones |-> phones, photo |-> photo]

StaffElements ==
    {Element("Ann Lee", "element", "General Manager", "element",
             "ann.lee@dealer.com", "mailto", <<>>, None),
     Element("Bob Ray", "text", None, "none",
             "Ann.Lee@dealer.com", "text", <<PhoneTuple("216", "555", "1234")>>, None),
     Element("Ann Lee", "text", "Receptionist", "text",
             None, "none", <<PhoneStr("440-555-0100 x2")>>, "/img/ann.jpg"),
     Element("Cy Fox", "element", "Sales Advisor", "element",
             None, "none", <<>>, None),
     Element("Cy Fox", "text", None, "none",
             "cy.fox@gmail.com", "mailto", <<PhoneStr("5551234")>>, "/img/cy.jpg"),
     Element("Dee Orr", "element", None, "none",
             "sales@example.com", "mailto", <<PhoneStr("5551234")>>, None),
     Element(None, "none", None, "none",
             "info@dealer.com", "mailto", <<PhoneStr("2165551234")>>, None),
     Element("Eve Poe", "text", "Staff", "text", None, "none", <<>>, None)}

\* the retention test with the name alone
retained_with_name(staff_member) == Present(staff_member.name)

\* the test at the end of _parse_staff_element and _extract_from_text
retained(staff_member) ==
    /\ Present(staff_member.name)
    /\ Present(staff_member.title) \/ Present(staff_member.email)
       \/ Present(staff_member.phone)

\* _parse_staff_element: the candidate of an element, <<>> when it returns None
parse_staff_element(element, domain) ==
    LET has_name == Present(element.name)
        has_title == Present(element.title) /\ (element.title_in = "element" \/ has_name)
        title_lower == lower(element.title)
        keyword == \E k \in title_keywords : Contains(title_lower, k)
        has_email == Present(element.email) /\ validate_email(element.email)
        in_domain == Contains(element.email, domain)
        formatted == SelectSeq(element.phones,
                               LAMBDA x : staff_format_phone_number(x).ok)
        staff_member ==
            [name |-> IF has_name THEN element.name ELSE None,
             title |-> IF has_title THEN element.title ELSE None,
             email |-> IF ~has_email THEN None
                       ELSE IF element.email_in = "mailto" THEN element.email
                       ELSE lower(element.email),
             phone |-> IF formatted = <<>> THEN None
                       ELSE staff_format_phone_number(Head(formatted)).phone,
             photo_url |-> element.photo,
             confidence |->
                 (IF ~has_name THEN 0 ELSE IF element.name_in = "element" THEN 4 ELSE 2)
                 + (IF ~has_title THEN 0
                    ELSE IF element.title_in = "element"
                    THEN (IF keyword THEN 4 ELSE 2) ELSE 1)
                 + (IF ~has_email THEN 0
                    ELSE IF element.email_in = "mailto"
                    THEN (IF in_domain THEN 6 ELSE 4)
                    ELSE (IF in_domain THEN 4 ELSE 2))
                 + (IF formatted = <<>> THEN 0 ELSE 2)
                 + (IF Present(element.photo) THEN 1 ELSE 0)]
    IN IF retained(staff_member) THEN <<staff_member>> ELSE <<>>

\* the cards of a staff grid: n members with different names, each with a
\* name element and a title element
GridName(k) == "Sam " \o SubSeq(UpperLetters, k, k) \o "ell"
GridCards(n) ==
    [k \in 1..n |->
        Element(GridName(k), "element",
                IF k % 2 = 0 THEN "Sales Advisor" ELSE "Receptionist", "element",
                None, "none", <<>>, None)]

\* staff_members.append(staff_member) for each element that gives one
RECURSIVE parse_all(_, _)
parse_all(elements, domain) ==
    IF elements = <<>> THEN <<>>
    ELSE parse_staff_element(Head(elements), domain) \o parse_all(Tail(elements), domain)

\* the fields a duplicate can supply, in the order of the loop
FillFields == <<"email", "phone", "title", "photo_url">>

\* the inner loop of _deduplicate_staff: existing with its missing fields
\* taken from staff, 0.5 added for each
RECURSIVE fill_missing(_, _, _)
fill_missing(existing, staff, fields) ==
    IF fields = <<>> THEN existing
    ELSE LET field == Head(fields)
             filled == IF ~Present(existing[field]) /\ Present(staff[field])
                       THEN [existing EXCEPT ![field] = staff[field],
                                             !.confidence = @ + 1]
                       ELSE existing
         IN fill_missing(filled, staff, Tail(fields))

\* _deduplicate_staff, a candidate whose name was seen: it replaces the
\* existing one when its confidence is higher, else fills its missing fields
merge(existing, staff) ==
    IF staff.confidence > existing.confidence
    THEN staff
    ELSE fill_missing(existing, staff, FillFields)

\* _deduplicate_staff: the loop over staff_members
RECURSIVE deduplicate_loop(_, _, _, _)
deduplicate_loop(unique_staff, seen_names, seen_emails, staff_members) ==
    IF staff_members = <<>> THEN unique_staff
    ELSE LET staff == Head(staff_members)
             rest == Tail(staff_members)
         IN IF Present(staff.email) /\ staff.email \in seen_emails
            THEN deduplicate_loop(unique_staff, seen_names, seen_emails, rest)
            ELSE IF Present(staff.name) /\ staff.name \in seen_names
            THEN LET same == {i \in DOMAIN unique_staff :
                                unique_staff[i].name = staff.name}
                     i == CHOOSE k \in same : \A j \in same : k <= j
                 IN deduplicate_loop(
                        IF same = {} THEN unique_staff
                        ELSE [unique_staff EXCEPT ![i] = merge(unique_staff[i], staff)],
                        seen_names, seen_emails, rest)
            ELSE deduplicate_loop(
                     Append(unique_staff, staff),
                     IF Present(staff.name) THEN seen_names \cup {staff.name}
                     ELSE seen_names,
                     IF Present(staff.email) THEN seen_emails \cup {staff.email}
                     ELSE seen_emails,
                     rest)

deduplicate_staff(staff_members) == deduplicate_loop(<<>>, {}, {}, staff_members)

\* a stable sort in non-increasing order of confidence: a member goes after
\* the members before it whose confidence is at least its own
RECURSIVE stable_sort(_)
stable_sort(l) ==
    IF l = <<>> THEN <<>>
    ELSE LET s == stable_sort(SubSeq(l, 1, Len(l) - 1))
             x == l[Len(l)]
             n == Cardinality({i \in DOMAIN s : s[i].confidence >= x.confidence})
         IN SubSeq(s, 1, n) \o <<x>> \o SubSeq(s, n + 1, Len(s))

\* a sort that leaves the list as it is
sorted_by_confidence_unsorted(l) == l

\* sorted(staff_members, key=lambda x: x['confidence'], reverse=True)
sorted_by_confidence(l) == stable_sort(l)

management_keywords ==
    {"president", "ceo", "cfo", "coo", "owner", "partner", "general manager", "gm",
     "director", "executive", "principal", "vp", "vice president", "chief", "head",
     "founder"}
sales_keywords ==
    {"sales", "salesperson", "salesman", "saleswoman", "lease", "finance", "f&i",
     "business manager", "internet sales"}
service_keywords ==
    {"service", "technician", "mechanic", "parts", "maintenance", "advisor", "repair",
     "warranty"}

\* _validate_staff_member: the role category of the title, and its priority
role_category(title) ==
    LET t == lower(title) IN
    IF ~Present(title) THEN "general"
    ELSE IF \E k \in management_keywords : Contains(t, k) THEN "management"
    ELSE IF \E k \in sales_keywords : Contains(t, k) THEN "sales"
    ELSE IF \E k \in service_keywords : Contains(t, k) THEN "service"
    ELSE "general"

validate_staff_member(staff_member) ==
    LET role == role_category(staff_member.title) IN
    [name |-> staff_member.name, title |-> staff_member.title,
     email |-> staff_member.email, phone |-> staff_member.phone,
     photo_url |-> staff_member.photo_url, confidence |-> staff_member.confidence,
     role_category |-> role,
     priority |-> IF role = "management" THEN 3 ELSE IF role = "sales" THEN 2
                  ELSE IF role = "service" THEN 1 ELSE 0]

\* _filter_and_limit_staff
filter_and_limit_staff(staff_members) ==
    LET sorted_staff == sorted_by_confidence(staff_members)
        filtered_staff == SelectSeq(sorted_staff,
                                    LAMBDA x : x.confidence >= min_confidence)
        validated_staff == [i \in DOMAIN filtered_staff |->
                               validate_staff_member(filtered_staff[i])]
    IN SubSeq(validated_staff, 1, Min(Len(validated_staff), max_staff))

\* extract_staff before its first page: elements is what the pages held,
\* found is staff_members, unique the deduplicated list, out the value returned
NoStaff ==
    [pc |-> "parsing", elements |-> <<>>, grid |-> 0, found |-> <<>>,
     unique |-> <<>>, out |-> <<>>]

InitScorer == scorer = NoStaff

\* a page with one staff element: staff_members.extend(staff_data)
ParseElement(element) ==
    /\ scorer.pc = "parsing"
    /\ Len(scorer.elements) < MaxStaffFound
    /\ scorer' = [scorer EXCEPT
                     !.elements = Append(@, element),
                     !.found = @ \o parse_staff_element(element, StaffDomain)]
    /\ UNCHANGED <<resilience_vars, coordinator_vars, orchestrator_vars, guard_vars,
                   calls_vars, fmt, worker_vars>>

\* the first page holds a grid of n staff cards
ParseGrid(n) ==
    /\ scorer.pc = "parsing"
    /\ scorer.grid = 0 /\ scorer.elements = <<>>
    /\ scorer' = [scorer EXCEPT
                     !.grid = n,
                     !.found = @ \o parse_all(GridCards(n), StaffDomain)]
    /\ UNCHANGED <<resilience_vars, coordinator_vars, orchestrator_vars, guard_vars,
                   calls_vars, fmt, worker_vars>>

\* staff_members = self._deduplicate_staff(staff_members)
DeduplicateStaff ==
    /\ scorer.pc = "parsing"
    /\ scorer' = [scorer EXCEPT !.pc = "deduplicated",
                                !.unique = deduplicate_staff(scorer.found)]
    /\ UNCHANGED <<resilience_vars, coordinator_vars, orchestrator_vars, guard_vars,
                   calls_vars, fmt, worker_vars>>

\* staff_members = self._filter_and_limit_staff(staff_members); return
FilterAndLimitStaff ==
    /\ scorer.pc = "deduplicated"
    /\ scorer' = [scorer EXCEPT !.pc = "returned",
                                !.out = filter_and_limit_staff(scorer.unique)]
    /\ UNCHANGED <<resilience_vars, coordinator_vars, orchestrator_vars, guard_vars,
                   calls_vars, fmt, worker_vars>>

NextScorer ==
    \/ \E element \in StaffElements : ParseElement(element)
    \/ \E n \in {2, MaxGrid} : ParseGrid(n)
    \/ DeduplicateStaff
    \/ FilterAndLimitStaff

(***************************************************************************)
(* ErrorTracker's methods run by several threads, statement by statement:  *)
(* _get_resource_lock, the with block, the body (error_handler.py)         *)
(***************************************************************************)
\* calls of the tracker one thread makes
MaxTrackerCalls == 3

\* the threads that share the tracker, and the methods they call, all for
\* one resource key and one error type
Threads == {"t1", "t2"}
TrackerOps == {"record_error", "check_circuit", "reset_circuit"}

\* an RLock nobody holds
FreeLock == [owner |-> None, depth |-> 0]

\* a thread outside the tracker: held is the stack of the locks of the with
\* blocks it is in, value the count it read for `+= 1`
NoThread == [pc |-> "idle", op |-> "none", held |-> <<>>, value |-> 0, calls |-> 0]

\* the tracker after __init__: resource_locks has no entry for the key
\* (stored = 0; otherwise the number of the RLock object stored for it),
\* count is error_counts[key][error_type], made the record_error calls that
\* have added their error since the last reset
InitLocks ==
    th = [stored |-> 0, created |-> 0,
          locks |-> [l \in 1..Cardinality(Threads) |-> FreeLock],
          count |-> 0, circuit_open |-> FALSE, made |-> 0,
          t |-> [x \in Threads |-> NoThread]]

\* what the steps of the threads leave alone
outside_locks ==
    <<resilience_vars, coordinator_vars, orchestrator_vars, guard_vars, calls_vars,
      extraction_vars, br>>

\* the thread is inside a with block of a lock
InCriticalSection(x) == th.t[x].held # <<>>

\* a thread calls a method of the tracker
TrackerCall(x, op) ==
    /\ th.t[x].pc = "idle" /\ th.t[x].calls < MaxTrackerCalls
    /\ th' = [th EXCEPT !.t[x].pc = "test", !.t[x].op = op, !.t[x].calls = @ + 1]
    /\ UNCHANGED outside_locks

\* `if resource_key not in self.resource_locks`
GetLockTest(x) ==
    /\ th.t[x].pc = "test"
    /\ th' = [th EXCEPT !.t[x].pc = IF th.stored = 0 THEN "create" ELSE "fetch"]
    /\ UNCHANGED outside_locks

\* `self.resource_locks[resource_key] = threading.RLock()`
GetLockCreate(x) ==
    /\ th.t[x].pc = "create"
    /\ th' = [th EXCEPT !.created = @ + 1, !.stored = th.created + 1,
                        !.t[x].pc = "fetch"]
    /\ UNCHANGED outside_locks

\* RLock.acquire: the lock is free, or the thread holds it already
CanAcquire(lock, x) == lock.owner \in {None, x}

\* `return self.resource_locks[resource_key]` and the entry of the with
\* block: the thread blocks until it can acquire the lock it was given
GetLockReturn(x) ==
    /\ th.t[x].pc = "fetch"
    /\ th' = [th EXCEPT !.t[x].pc = "acquire", !.t[x].held = Append(@, th.stored)]
    /\ UNCHANGED outside_locks

\* RLock.acquire returns
AcquireLock(x) ==
    LET l == th.t[x].held[Len(th.t[x].held)] IN
    /\ th.t[x].pc = "acquire"
    /\ CanAcquire(th.locks[l], x)
    /\ th' = [th EXCEPT !.locks[l] = [owner |-> x, depth |-> @.depth + 1],
                        !.t[x].pc = IF th.t[x].op = "record_error" THEN "load"
                                    ELSE IF th.t[x].op = "check_circuit" THEN "check"
                                    ELSE "reset"]
    /\ UNCHANGED outside_locks

\* record_error, `self.error_counts[resource_key][error_type] += 1`: the
\* count is read
RecordLoad(x) ==
    /\ th.t[x].pc = "load"
    /\ th' = [th EXCEPT !.t[x].pc = "store", !.t[x].value = th.count]
    /\ UNCHANGED outside_locks

\* ... and the value read plus one is stored
RecordStore(x) ==
    /\ th.t[x].pc = "store"
    /\ th' = [th EXCEPT !.t[x].pc = "sum", !.count = th.t[x].value + 1,
                        !.made = @ + 1]
    /\ UNCHANGED outside_locks

\* total_errors = sum(...); the circuit opens at the threshold
RecordSum(x) ==
    /\ th.t[x].pc = "sum"
    /\ th' = [th EXCEPT !.t[x].pc = "release",
                        !.circuit_open = @ \/ th.count >= error_threshold]
    /\ UNCHANGED outside_locks

\* check_circuit's body: false for a closed circuit; for an open one whose
\* last error is older than reset_interval, the call of reset_circuit
CheckBody(x, elapsed) ==
    /\ th.t[x].pc = "check"
    /\ th' = [th EXCEPT !.t[x].pc = IF th.circuit_open /\ elapsed THEN "test"
                                    ELSE "release",
                        !.t[x].op = IF th.circuit_open /\ elapsed THEN "reset_circuit"
                                    ELSE @]
    /\ UNCHANGED outside_locks

\* reset_circuit's body
ResetBody(x) ==
    /\ th.t[x].pc = "reset"
    /\ th' = [th EXCEPT !.t[x].pc = "release", !.count = 0, !.circuit_open = FALSE,
                        !.made = 0]
    /\ UNCHANGED outside_locks

\* the end of a with block: the lock is released; the method returns, or
\* check_circuit goes on after its reset_circuit call and returns
ReleaseLock(x) ==
    LET held == th.t[x].held
        l == held[Len(held)]
    IN /\ th.t[x].pc = "release"
       /\ th' = [th EXCEPT
                    !.locks[l] = IF @.depth = 1 THEN FreeLock
                                 ELSE [owner |-> x, depth |-> @.depth - 1],
                    !.t[x].held = SubSeq(held, 1, Len(held) - 1),
                    !.t[x].pc = IF Len(held) > 1 THEN "release" ELSE "idle",
                    !.t[x].op = IF Len(held) > 1 THEN @ ELSE "none"]
       /\ UNCHANGED outside_locks

NextLocks ==
    \/ \E x \in Threads, op \in TrackerOps : TrackerCall(x, op)
    \/ \E x \in Threads : GetLockTest(x)
    \/ \E x \in Threads : GetLockCreate(x)
    \/ \E x \in Threads : GetLockReturn(x)
    \/ \E x \in Threads : AcquireLock(x)
    \/ \E x \in Threads : RecordLoad(x)
    \/ \E x \in Threads : RecordStore(x)
    \/ \E x \in Threads : RecordSum(x)
    \/ \E x \in Threads, elapsed \in BOOLEAN : CheckBody(x, elapsed)
    \/ \E x \in Threads : ResetBody(x)
    \/ \E x \in Threads : ReleaseLock(x)

(***************************************************************************)
(* Browser sessions: ContactExtractor (contact_extractor.py) as it is used *)
(* by DealershipVerifier.scrape_contacts and by HybridContactExtractor.    *)
(* The tracker's side of scrape_contacts is CallScrapeContacts.            *)
(***************************************************************************)
\* browser sessions started in one scrape_contacts call, or by one coordinator
MaxSessions == 3
\* extract_contacts calls made on one coordinator
MaxHybridCalls == 2

\* max_retries of setup_driver, extract_contacts and scrape_contacts
setup_driver_retries == 2
extract_contacts_retries == 3
scrape_contacts_retries == 2

\* the worker threads of the executor
Workers == {"worker-1", "worker-2"}

\* how one attempt of setup_driver ends: the driver is ready; webdriver.Chrome
\* raises (no browser was started); the browser was started and
\* set_page_load_timeout or execute_script raises
SetupOutcomes == {"ready", "chrome_raises", "configure_raises"}

\* no extractor: sessions are the browsers started (alive until quit, with
\* the thread that started them), driver the extractor's self.driver (0: the
\* attribute is not set), uses the attempts of extract_contacts
NoSessions ==
    [pc |-> "idle", ctx |-> "none", thread |-> None, sessions |-> <<>>, driver |-> 0,
     has_extractor |-> FALSE, setup_retries |-> 0, extract_retries |-> 0,
     scrape_retries |-> 0, calls |-> 0, uses |-> <<>>, result |-> "none"]

InitSessions == br = NoSessions

outside_sessions ==
    <<resilience_vars, coordinator_vars, orchestrator_vars, guard_vars, calls_vars,
      extraction_vars, th>>

\* driver.quit() through safe_cleanup_webdriver(getattr(self, 'driver', None))
quit_driver(sessions, driver) ==
    IF driver = 0 THEN sessions ELSE [sessions EXCEPT ![driver].alive = FALSE]

\* a worker enters self.scrape_contacts(url): the attempt starts with
\* ContactExtractor(headless=True)
ScrapeStart(t) ==
    /\ br.pc = "idle"
    /\ br' = [NoSessions EXCEPT !.pc = "setup", !.ctx = "scrape", !.thread = t]
    /\ UNCHANGED outside_sessions

\* a thread constructs a HybridContactExtractor, which constructs its
\* ContactExtractor
HybridNew(t) ==
    /\ br.pc = "idle"
    /\ br' = [NoSessions EXCEPT !.pc = "setup", !.ctx = "hybrid", !.thread = t]
    /\ UNCHANGED outside_sessions

\* one attempt of the decorated setup_driver, called by __init__: when the
\* retries are exhausted the exception leaves the constructor
SetupDriver(outcome) ==
    /\ br.pc = "setup"
    /\ outcome # "chrome_raises" => Len(br.sessions) < MaxSessions
    /\ LET started == IF outcome = "chrome_raises" THEN br.sessions
                      ELSE Append(br.sessions, [alive |-> TRUE, creator |-> br.thread])
           driver == IF outcome = "chrome_raises" THEN br.driver ELSE Len(started)
           b == [br EXCEPT !.sessions = started, !.driver = driver]
       IN br' = IF outcome = "ready"
                THEN [b EXCEPT !.has_extractor = TRUE, !.extract_retries = 0,
                               !.pc = IF br.ctx = "scrape" THEN "extract" ELSE "ready"]
                ELSE IF br.setup_retries + 1 > setup_driver_retries
                THEN [b EXCEPT !.pc = IF br.ctx = "scrape" THEN "finally" ELSE "idle",
                               !.result = "raised"]
                ELSE [b EXCEPT !.setup_retries = @ + 1]
    /\ UNCHANGED outside_sessions

\* HybridContactExtractor.extract_contacts(url) calls
\* self.selenium_extractor.extract_contacts(url)
HybridCall ==
    /\ br.pc = "ready" /\ br.calls < MaxHybridCalls
    /\ br' = [br EXCEPT !.pc = "extract", !.calls = @ + 1, !.extract_retries = 0]
    /\ UNCHANGED outside_sessions

\* the ResourceGuard of extract_contacts: cleanup_func calls self.cleanup()
guard_cleanup(sessions, driver) == quit_driver(sessions, driver)

\* one attempt of the decorated extract_contacts: the page is loaded with
\* self.driver (a driver that was quit raises), the guard's cleanup runs when
\* the with block is left; a failed attempt is retried, or the exception
\* leaves the call; the coordinator catches it
ExtractAttempt(ok) ==
    /\ br.pc = "extract"
    /\ ok => br.sessions[br.driver].alive
    /\ LET b == [br EXCEPT
                    !.uses = Append(@, [alive |-> br.sessions[br.driver].alive,
                                        thread |-> br.thread,
                                        creator |-> br.sessions[br.driver].creator,
                                        retry |-> br.extract_retries > 0,
                                        call |-> br.calls]),
                    !.sessions = guard_cleanup(@, br.driver)]
       IN br' = IF ok
                THEN [b EXCEPT !.pc = IF br.ctx = "scrape" THEN "finally" ELSE "ready",
                               !.result = "returned"]
                ELSE IF br.extract_retries + 1 > extract_contacts_retries
                THEN [b EXCEPT !.pc = IF br.ctx = "scrape" THEN "finally" ELSE "ready",
                               !.result = "raised"]
                ELSE [b EXCEPT !.extract_retries = @ + 1]
    /\ UNCHANGED outside_sessions

\* the finally clause of scrape_contacts: extractor.cleanup() when the local
\* exists; then the wrapper of scrape_contacts returns, retries the function
\* with a new extractor, or re-raises
ScrapeFinally ==
    /\ br.pc = "finally"
    /\ LET b == [br EXCEPT
                    !.sessions = IF br.has_extractor THEN quit_driver(@, br.driver)
                                 ELSE @]
       IN br' = IF br.result = "raised" /\ br.scrape_retries + 1 <= scrape_contacts_retries
                THEN [b EXCEPT !.pc = "setup", !.scrape_retries = @ + 1,
                               !.has_extractor = FALSE, !.driver = 0,
                               !.setup_retries = 0, !.result = "none"]
                ELSE [b EXCEPT !.pc = "ended"]
    /\ UNCHANGED outside_sessions

NextSessions ==
    \/ \E t \in Workers : ScrapeStart(t)
    \/ \E t \in Workers : HybridNew(t)
    \/ \E outcome \in SetupOutcomes : SetupDriver(outcome)
    \/ HybridCall
    \/ \E ok \in BOOLEAN : ExtractAttempt(ok)
    \/ ScrapeFinally

Init ==
    /\ InitResilience /\ InitCoordinator /\ InitOrchestrator /\ InitRun /\ InitGuard
    /\ InitCalls /\ InitScorer /\ InitFmt /\ InitLocks /\ InitSessions

\* the tracker driven through its API by any number of threads
NextTracker ==
    \/ \E r \in Resources, e \in FuncExceptions : RecordError(r, e)
    \/ \E r \in Resources : CheckCircuit(r)
    \/ \E r \in Resources : ResetCircuit(r)
    \/ \E d \in TickSteps : Tick(d)

SpecTracker == Init /\ [][NextTracker]_vars

\* the tracker driven by calls of a decorated function
NextRetry ==
    \/ \E r \in Resources, mr \in 0..MaxRetriesBound : WrapperEnter(r, mr)
    \/ FuncReturns
    \/ \E e \in FuncExceptions : FuncRaises(e)
    \/ Sleep
    \/ \E r \in Resources : ResetCircuit(r)
    \/ Tick(reset_interval + 1)

SpecRetry == Init /\ [][NextRetry]_vars

\* decorated functions that call decorated functions
NextNested ==
    \/ \E r \in Resources, mr \in 0..MaxNestedRetries : WrapperEnter(r, mr)
    \/ FuncReturns
    \/ \E e \in FuncExceptions : FuncRaises(e)
    \/ Sleep
    \/ \E r2 \in Resources : InnerWrapperEnter(r2)
    \/ Tick(reset_interval + 1)

SpecNested == Init /\ [][NextNested]_vars

\* threads calling the tracker's methods for one resource key
SpecLocks == Init /\ [][NextLocks]_vars

\* one worker, or one coordinator, and its browser sessions
SpecSessions == Init /\ [][NextSessions]_vars

SpecHybrid == Init /\ [][NextHybrid]_vars

\* one worker running process_batch, a thread saving the progress beside it
SpecBatch == Init /\ [][NextBatch]_vars

\* processes running process_dealerships one after the other, with signals
SpecRun == Init /\ [][NextRun]_vars

\* one ResourceGuard used by one thread
SpecGuard == Init /\ [][NextGuard]_vars

\* the verifier's decorated methods called for one row after the other
SpecCalls == Init /\ [][NextCalls]_vars

\* the extractors reading the candidates of one page after the other
SpecContacts == Init /\ [][NextContacts]_vars

\* extract_staff: pages parsed, then the deduplication and the filter
SpecScorer == Init /\ [][NextScorer]_vars

(***************************************************************************)
(* Properties of the circuit breaker (SpecTracker)                         *)
(***************************************************************************)
\* time elapsed since the last error recorded for r (r has one)
Elapsed(r) == now - tracker.last_error_time[r]

HasError(r) == r \in DOMAIN tracker.last_error_time

IsOpen(r) == r \in DOMAIN tracker.circuit_open /\ tracker.circuit_open[r]

\* C1: once the errors recorded for a resource, summed over the error types,
\* have reached error_threshold, and for as long as no more than reset_interval
\* has elapsed since its last error and no reset has cleared the counts, every
\* check_circuit of that resource returns true: the call just made returned
\* true, and a call made now would return true.
C1_OpenWithinInterval ==
    \A r \in Resources :
        (total_errors(tracker, r) >= error_threshold /\ HasError(r)
            /\ Elapsed(r) <= reset_interval)
        => /\ check_circuit(tracker, r, now).ret
           /\ (last_call.op = "check_circuit" /\ last_call.key = r) => last_call.val

\* five errors of two types, a check exactly reset_interval after the last one
C1_Witness ==
    /\ last_call = [op |-> "check_circuit", key |-> "dealerA.com", val |-> TRUE,
                    did_reset |-> FALSE]
    /\ DOMAIN tracker.error_counts["dealerA.com"] = FuncExceptions
    /\ total_errors(tracker, "dealerA.com") = error_threshold
    /\ Elapsed("dealerA.com") = reset_interval

\* the step is a check_circuit(r) call
IsCheckStep(r) == last_call'.op = "check_circuit" /\ last_call'.key = r

\* the step is a reset_circuit(r) call
IsResetStep(r) == last_call'.op = "reset_circuit" /\ last_call'.key = r

\* C2: a check_circuit of an open circuit made more than reset_interval after
\* the resource's last error returns false and resets the circuit (closed, all
\* error counts cleared); a reset happens only on an open circuit, so once per
\* opening; reset_circuit has the same effect at any time; and after a reset
\* the resource re-accumulates from zero: check_circuit returns false until
\* error_threshold errors are counted again.
C2_AutoReset ==
    /\ [][\A r \in Resources :
            /\ (IsCheckStep(r) /\ IsOpen(r) /\ Elapsed(r) > reset_interval)
               => /\ ~last_call'.val /\ last_call'.did_reset
                  /\ r \in DOMAIN tracker'.circuit_open /\ ~tracker'.circuit_open[r]
                  /\ tracker'.error_counts[r] = EmptyDict
            /\ (IsCheckStep(r) /\ last_call'.did_reset)
               => IsOpen(r) /\ Elapsed(r) > reset_interval
            /\ IsResetStep(r)
               => /\ total_errors(tracker', r) = 0
                  /\ r \in DOMAIN tracker'.circuit_open => ~tracker'.circuit_open[r]
                  /\ ~check_circuit(tracker', r, now').ret]_vars
    /\ [](\A r \in Resources :
            total_errors(tracker, r) < error_threshold
            => ~IsOpen(r) /\ ~check_circuit(tracker, r, now).ret)

\* a check that has just auto-reset a circuit opened by errors of two types
C2_Witness ==
    /\ last_call = [op |-> "check_circuit", key |-> "dealerB.com", val |-> FALSE,
                    did_reset |-> TRUE]
    /\ tracker.circuit_open["dealerB.com"] = FALSE
    /\ tracker.error_counts["dealerB.com"] = EmptyDict
    /\ Elapsed("dealerB.com") = reset_interval + 1
    /\ IsOpen("dealerA.com")

(***************************************************************************)
(* Properties of the retry wrapper (SpecRetry)                             *)
(***************************************************************************)
\* the call has ended
CallEnded == w.pc = "idle" /\ w.result # "none"

\* an exception that is an instance of no class of retry_exceptions
Fatal(e) == \A c \in ClassesOf(e) : c \notin retry_exceptions

\* every failure of func in this call was transient: a fatal exception ends the
\* call, so only the last exception can be fatal
AllTransient == w.fails = 0 \/ ~Fatal(w.exc)

\* C3: a call that passed the circuit check and whose failures are all
\* transient: if func fails k times and then succeeds with max_retries >= k,
\* the wrapper returns after exactly k+1 invocations; it gives up only when
\* func has failed max_retries+1 times, after exactly max_retries+1 invocations.
C3_RetryCount ==
    /\ (w.pc # "idle" /\ AllTransient)
       => w.invocations = w.fails /\ w.fails <= w.max_retries
    /\ (CallEnded /\ w.result = "returned")
       => w.invocations = w.fails + 1 /\ w.fails <= w.max_retries
    /\ (CallEnded /\ w.result = "raised" /\ AllTransient)
       => w.fails = w.max_retries + 1 /\ w.invocations = w.max_retries + 1

\* two transient failures, then success, on the third invocation
C3_Witness ==
    /\ CallEnded /\ w.result = "returned"
    /\ w.fails = 2 /\ w.max_retries = 3 /\ w.invocations = 3
    /\ w.exc = "ConnectionError"

\* C4: when check_circuit returns true at the entry of the wrapper, the call
\* ends at once with CircuitOpenException: func is not invoked, nothing sleeps,
\* and a refusal is the only way the wrapper raises without invoking func.
C4_FailFast ==
    /\ (last_call.op = "check_circuit" /\ last_call.val)
       => /\ CallEnded /\ w.result = "refused" /\ w.key = last_call.key
    /\ w.result = "refused"
       => /\ w.exc = "CircuitOpenException" /\ w.pc = "idle"
          /\ w.invocations = 0 /\ w.sleeps = 0 /\ w.fails = 0
    /\ (CallEnded /\ w.result # "refused") => w.invocations >= 1

\* a call refused for a resource whose circuit five failed calls have opened
C4_Witness ==
    /\ w.result = "refused" /\ w.key = "dealerA.com" /\ w.max_retries = 3
    /\ last_call.op = "check_circuit" /\ last_call.val
    /\ total_errors(tracker, "dealerA.com") = error_threshold

C32_RecordOnlyOnFailure ==
    /\ [](/\ w.records <= 1
          /\ (w.records = 1 => CallEnded /\ w.result = "raised")
          /\ (w.result = "returned" => w.records = 0)
          /\ (CallEnded /\ w.result = "raised" /\ w.retries = w.max_retries + 1)
                => w.records = 1)
    /\ [][/\ (w.pc = "call_func" /\ w'.pc = "sleep") => tracker' = tracker
          /\ (w.pc = "call_func" /\ w'.result = "returned") => tracker' = tracker
          /\ (w.pc = "call_func" /\ last_call'.op = "record_error")
                => /\ w'.pc = "idle" /\ w'.result = "raised"
                   /\ total_errors(tracker', w.key) = total_errors(tracker, w.key) + 1]_vars

\* three transient failures slept over, the fourth exhausts max_retries = 3:
\* one error stands against the key
C32_Witness ==
    /\ CallEnded /\ w.result = "raised" /\ w.exc = "ConnectionError"
    /\ w.max_retries = 3 /\ w.retries = 4 /\ w.sleeps = 3 /\ w.records = 1
    /\ total_errors(tracker, w.key) = 1

\* C40: the errors counted for a resource, and its open circuit, are cleared
\* only by reset_circuit, called explicitly or by the auto-reset of
\* check_circuit: the return of a wrapped function leaves the tracker as it
\* is, and so does the circuit check at the entry of a call unless it
\* auto-resets, so the failures of earlier calls stay counted after a success.
C40_SuccessKeepsCounts ==
    [][/\ \A r \in Resources :
            (\/ total_errors(tracker', r) < total_errors(tracker, r)
             \/ (IsOpen(r) /\ ~(r \in DOMAIN tracker'.circuit_open
                                 /\ tracker'.circuit_open[r])))
            => \/ IsResetStep(r)
               \/ (IsCheckStep(r) /\ last_call'.did_reset)
       /\ (w.pc = "call_func" /\ w'.result = "returned")
            => /\ tracker'.error_counts = tracker.error_counts
               /\ tracker'.circuit_open = tracker.circuit_open
               /\ tracker'.last_error_time = tracker.last_error_time
       /\ (w.pc = "idle" /\ w'.pc = "call_func" /\ ~last_call'.did_reset)
            => tracker' = tracker]_vars

\* a call that returned at its first attempt while four errors of earlier
\* calls stand against its key: they are still counted
C40_Witness ==
    /\ CallEnded /\ w.result = "returned" /\ w.fails = 0
    /\ total_errors(tracker, w.key) = error_threshold - 1
    /\ w.key \in DOMAIN tracker.last_error_time

\* C36: a refusal by an open circuit is never counted as a failure: no
\* CircuitOpenException is ever recorded against a resource key, whether the
\* refusal comes from the wrapper of the call or from the wrapper of a
\* decorated function called inside it, and a refused call has recorded
\* nothing.
C36_RefusalNotCounted ==
    /\ \A r \in Resources :
          r \in DOMAIN tracker.error_counts
          => "CircuitOpenException" \notin DOMAIN tracker.error_counts[r]
    /\ w.exc = "CircuitOpenException" => w.records = 0

\* C6: a function decorated with max_retries=3 and the default retry_exceptions
\* that raises ValueError on its first k <= 3 calls and then returns: the call
\* returns the value after exactly k+1 invocations (test_retry_decorator).
C6_ValueErrorRetried ==
    (CallEnded /\ w.result # "refused" /\ w.max_retries = 3
        /\ (w.fails = 0 \/ w.exc = "ValueError") /\ w.fails <= 3)
    => w.result = "returned" /\ w.invocations = w.fails + 1

(***************************************************************************)
(* Properties of the hybrid coordinators (SpecHybrid)                      *)
(***************************************************************************)
\* the call has returned its result
Returned == co.pc = "done"

\* what the backends did in this call, from the history of the call
SeleniumSucceeded == co.pc \notin {"idle", "contacts"} /\ ~co.sel_raised
FirecrawlInvoked == co.fc_calls > 0
FirecrawlSucceeded == co.fc_calls > 0 /\ ~co.fc_raised
FirecrawlFailed == co.fc_calls > 0 /\ co.fc_raised

\* the name of the combined state, and the "auto" policy, of each coordinator
CombinedMethod == IF co.impl = "super" THEN "super_hybrid" ELSE "hybrid"

\* the escalation block has been passed
PastFirecrawl == co.pc \in {"finish", "done"}

\* C7: policy auto, backend A returned at least one email and one phone but no
\* address and no staff: backend B is called, and when it succeeds the result
\* is the merge of both (emails and phones are the union, without repetition)
\* and the method is the combined state; if B supplied an address, the final
\* address is B's address, so non-null.
C7_AutoEscalatesAndMerges ==
    (co.mode = "auto" /\ SeleniumSucceeded /\ PastFirecrawl
        /\ co.sel.emails # <<>> /\ co.sel.phones # <<>> /\ co.sel.address = None
        /\ co.staff = <<>>)
    => /\ co.fc_calls = 1
       /\ (Returned /\ FirecrawlSucceeded)
          => /\ co.method = CombinedMethod
             /\ Elems(co.emails) = Elems(co.sel.emails) \cup Elems(co.fc.emails)
             /\ Elems(co.phones) = Elems(co.sel.phones) \cup Elems(co.fc.phones)
             /\ Len(co.emails) = Cardinality(Elems(co.emails))
             /\ Len(co.phones) = Cardinality(Elems(co.phones))
             /\ Truthy(co.fc.address)
                => co.address = co.fc.address /\ co.address # None

\* extract_all in auto mode, merged: A gave an email and a phone, B the address
C7_Witness ==
    /\ Returned /\ co.impl = "super" /\ co.mode = "auto"
    /\ ~co.sel_raised /\ co.sel.address = None /\ co.staff = <<>>
    /\ co.sel.emails = <<"sales@dealer.com">> /\ co.sel.phones = <<"2165551234">>
    /\ co.fc.emails = <<"info@dealer.com">>
    /\ co.method = "super_hybrid" /\ co.address = "9 Oak Ave, Akron OH 44301"
    /\ Len(co.emails) = 2

\* backend A's result lacks an email, a phone, an address or (extract_all only)
\* a staff candidate
SeleniumIncomplete ==
    \/ co.sel.emails = <<>> \/ co.sel.phones = <<>> \/ co.sel.address = None
    \/ (co.impl = "super" /\ co.staff = <<>>)

\* the policy of the call, in the vocabulary of the specification
Policy ==
    IF co.mode \in {"combine", "always"} THEN "combine"
    ELSE IF co.mode = "auto" THEN "auto" ELSE "fallback"

\* C8: in one call backend B is invoked exactly when backend A raised, or the
\* policy is combine, or the policy is auto and A's result is incomplete; it is
\* invoked at most once; when it is not invoked after a successful A (policy
\* fallback, or auto with complete data) the method is backend A alone.
C8_EscalationExactlyWhen ==
    /\ co.fc_calls <= 1
    /\ ~PastFirecrawl => (co.pc = "idle" \/ co.fc_calls = 0)
    /\ (PastFirecrawl \/ co.pc = "idle")
       => (FirecrawlInvoked <=>
             /\ co.pc # "idle"
             /\ \/ co.sel_raised
                \/ Policy = "combine"
                \/ (Policy = "auto" /\ SeleniumIncomplete))
    /\ (Returned /\ SeleniumSucceeded
          /\ (Policy = "fallback" \/ (Policy = "auto" /\ ~SeleniumIncomplete)))
       => co.fc_calls = 0 /\ co.method = "selenium"

\* extract_all in fallback mode returning an incomplete result of backend A alone
C8_Witness ==
    /\ Returned /\ co.impl = "super" /\ co.mode = "fallback"
    /\ ~co.sel_raised /\ co.sel.emails = <<>> /\ co.sel.address = None
    /\ co.fc_calls = 0 /\ co.method = "selenium"

\* C9: a backend exception never leaves the coordinator: a call in which a
\* backend raised still returns a result. If backend B raised after backend A
\* succeeded, the result is exactly what A produced; the method is 'failed'
\* only if both backends raised, and then the result is empty.
C9_BackendFailureContained ==
    /\ (PastFirecrawl /\ SeleniumSucceeded /\ FirecrawlFailed)
       => /\ co.emails = co.sel.emails /\ co.phones = co.sel.phones
          /\ co.address = co.sel.address
          /\ co.staff = (IF co.impl = "super" THEN co.staff_res ELSE <<>>)
    /\ (Returned /\ co.method = "failed")
       => /\ co.sel_raised /\ FirecrawlFailed
          /\ co.emails = <<>> /\ co.phones = <<>> /\ co.staff = <<>>
          /\ co.address = None
    /\ (co.sel_raised \/ co.fc_raised \/ co.staff_raised)
       => co.pc \in {"firecrawl", "finish", "done"}

\* always mode: backend A returned data, backend B raised
C9_Witness ==
    /\ Returned /\ co.impl = "hybrid" /\ co.mode = "always"
    /\ ~co.sel_raised /\ co.fc_raised /\ co.fc_calls = 1
    /\ co.emails = <<"info@dealer.com", "sales@dealer.com">>
    /\ co.address # None /\ co.method = "selenium"

\* C10: the method of a returned result is one of the four terminal states and
\* names the backends that succeeded: combined iff both did, 'selenium' iff A
\* did and B was not invoked or raised, 'firecrawl' iff A raised and B
\* succeeded, 'failed' iff both raised; the value the result is initialised
\* with is never what is returned (in HybridContactExtractor the combined state
\* is itself named 'hybrid': it is returned only as the combined state).
C10_MethodNamesBackends ==
    Returned =>
       /\ co.method \in {CombinedMethod, "selenium", "firecrawl", "failed"}
       /\ co.method = CombinedMethod <=> (SeleniumSucceeded /\ FirecrawlSucceeded)
       /\ co.method = "selenium"
             <=> (SeleniumSucceeded /\ (~FirecrawlInvoked \/ FirecrawlFailed))
       /\ co.method = "firecrawl" <=> (co.sel_raised /\ FirecrawlSucceeded)
       /\ co.method = "failed" <=> (co.sel_raised /\ FirecrawlFailed)
       /\ co.impl = "super" => co.method # InitialCall(co.impl, co.mode).method

\* extract_all returning backend B's data after backend A raised
C10_Witness ==
    /\ Returned /\ co.impl = "super" /\ co.mode = "fallback"
    /\ co.sel_raised /\ co.fc_calls = 1 /\ ~co.fc_raised
    /\ co.method = "firecrawl" /\ co.emails # <<>>

(***************************************************************************)
(* Properties of process_batch (SpecBatch)                                 *)
(***************************************************************************)
\* process_batch has returned
BatchReturned == bw.pc = "returned"

\* how many entries of the list L are about row i of the batch
EntriesOf(L, i) == Cardinality({k \in DOMAIN L : L[k].row = i})

\* C11: when a batch has been processed without a shutdown request, every
\* row of the batch was taken and ends in exactly one of the two lists: a
\* row whose processing raised has one failure record, carrying the
\* exception's text, in the batch's failures and in failed_dealerships, and
\* no result; every other row has one result and no failure record; so
\* len(results) + len(failures of the batch) = len(batch).
C11_RecordIsolation ==
    (BatchReturned /\ ~sup.is_shutting_down) =>
        /\ Len(bw.rows) = bw.size
        /\ \A i \in 1..bw.size :
              IF bw.raised[i] # None
              THEN /\ EntriesOf(bw.results, i) = 0
                   /\ EntriesOf(bw.failed_in_batch, i) = 1
                   /\ EntriesOf(prog.failed_dealerships, i) = 1
                   /\ \A k \in DOMAIN prog.failed_dealerships :
                         prog.failed_dealerships[k].row = i
                         => prog.failed_dealerships[k].Error = bw.raised[i]
              ELSE /\ EntriesOf(bw.results, i) = 1
                   /\ EntriesOf(bw.failed_in_batch, i) = 0
        /\ Len(bw.results) + Len(bw.failed_in_batch) = bw.size

\* a batch of three whose second row raised and whose third was still processed
C11_Witness ==
    /\ BatchReturned /\ ~sup.is_shutting_down /\ bw.size = 3
    /\ bw.raised[1] = None /\ bw.raised[2] # None /\ bw.raised[3] = None
    /\ Len(bw.results) = 2 /\ Len(prog.failed_dealerships) = 1

\* the batch of the end-to-end scenario: a live target, a target that times
\* out (at the liveness check, or at every extraction attempt), a target that
\* refuses the connection
ScenarioBatch ==
    /\ bw.size = 3 /\ Len(bw.rows) = 3
    /\ bw.rows[1].kind = "live"
    /\ bw.rows[2].kind \in {"timeout", "live_noscrape"}
    /\ bw.rows[3].kind = "refused"

\* C12: after the batch of the end-to-end scenario the statistics are
\* total_processed = 3, active_count = 1 and one failed record, that of
\* target 2, and target 3 is recorded as inactive with no extraction attempted.
C12_EndToEnd ==
    (BatchReturned /\ ~sup.is_shutting_down /\ ScenarioBatch) =>
        /\ prog.total_processed = 3
        /\ prog.active_websites = 1
        /\ Len(prog.failed_dealerships) = 1
        /\ prog.failed_dealerships[1].row = 2
        /\ \E k \in DOMAIN bw.results :
              bw.results[k].row = 3 /\ ~bw.results[k].IsActive
        /\ bw.extraction = "none"

\* the counters of a JobProgress agree with each other
Consistent(d) ==
    /\ SumValues(d.manufacturer_counts) = d.total_processed
    /\ d.active_websites <= d.total_processed

\* C15: in every state another thread can read, and in every document
\* save_progress serializes while the worker runs, no row's update is partly
\* applied: the category counts add up to total_processed and
\* active_count <= total_processed.
C15_AtomicRecordUpdate ==
    /\ Consistent(prog)
    /\ (snapshot # <<>> /\ snapshot[1].pc = "dumped") => Consistent(snapshot[1].doc)

\* how many rows of the batch are of category m
RowsOfCategory(m) ==
    Cardinality({i \in DOMAIN bw.rows : identify_manufacturer(bw.rows[i]) = m})

\* C28: when a batch has been processed without a shutdown request, every
\* row was classified and tallied once, whatever its liveness check did: each
\* category's count is the number of rows of the batch of that category.
C28_ClassifiedRegardless ==
    (BatchReturned /\ ~sup.is_shutting_down) =>
        \A m \in DOMAIN manufacturer_data \cup {"Other"} :
            (IF m \in DOMAIN prog.manufacturer_counts
             THEN prog.manufacturer_counts[m] ELSE 0) = RowsOfCategory(m)

(***************************************************************************)
(* Properties of the merge of the two backends (SpecHybrid)                *)
(***************************************************************************)
\* C29: when both backends returned and the coordinator has merged them, the
\* merged emails are exactly the values of A's and B's emails, each once, and
\* the same for the phones.
C29_UnionMerge ==
    (PastFirecrawl /\ SeleniumSucceeded /\ FirecrawlSucceeded) =>
        /\ Elems(co.emails) = Elems(co.sel.emails) \cup Elems(co.fc.emails)
        /\ Elems(co.phones) = Elems(co.sel.phones) \cup Elems(co.fc.phones)
        /\ Len(co.emails) = Cardinality(Elems(co.emails))
        /\ Len(co.phones) = Cardinality(Elems(co.phones))

(***************************************************************************)
(* Properties of the staff scorer (SpecScorer)                             *)
(***************************************************************************)
\* the fields of a candidate that hold text
CandidateFields == {"name", "title", "email", "phone", "photo_url"}

\* the deduplication has run on exactly two candidates
TwoCandidates ==
    scorer.pc # "parsing" /\ scorer.grid = 0 /\ Len(scorer.found) = 2

\* of the two candidates found, the one with the higher, and the lower, confidence
Higher ==
    IF scorer.found[1].confidence > scorer.found[2].confidence
    THEN scorer.found[1] ELSE scorer.found[2]
Lower ==
    IF scorer.found[1].confidence > scorer.found[2].confidence
    THEN scorer.found[2] ELSE scorer.found[1]

\* the two candidates have the same email, and different confidences
SameEmailPair ==
    /\ TwoCandidates
    /\ Present(scorer.found[1].email) /\ scorer.found[1].email = scorer.found[2].email
    /\ scorer.found[1].confidence # scorer.found[2].confidence

\* C22: two candidates with the same email and different confidences are
\* merged into one candidate that has at least the higher confidence, the
\* fields of the higher-confidence candidate, and, for each field this one
\* lacks, the value of the lower-confidence candidate, in either order.
C22_EmailMerge ==
    SameEmailPair =>
        /\ Len(scorer.unique) = 1
        /\ scorer.unique[1].confidence >= Higher.confidence
        /\ \A f \in CandidateFields :
              scorer.unique[1][f] = IF Present(Higher[f]) THEN Higher[f] ELSE Lower[f]

\* a candidate has a name and one of title, email, phone
WellFormed(c) ==
    /\ c.name \notin {None, ""}
    /\ c.title \notin {None, ""} \/ c.email \notin {None, ""} \/ c.phone \notin {None, ""}

\* C39: the list _deduplicate_staff returns holds no two candidates with the
\* same name and no two candidates with the same non-empty email.
C39_NoDuplicates ==
    \A i, j \in DOMAIN scorer.unique :
        i # j => /\ scorer.unique[i].name # scorer.unique[j].name
                 /\ Present(scorer.unique[i].email)
                      => scorer.unique[i].email # scorer.unique[j].email

\* C23: every candidate the scorer holds after parsing, after the
\* deduplication and after the filter has a non-empty name and at least one
\* non-empty field among title, email and phone.
C23_CandidateInvariant ==
    /\ \A i \in DOMAIN scorer.found : WellFormed(scorer.found[i])
    /\ \A i \in DOMAIN scorer.unique : WellFormed(scorer.unique[i])
    /\ \A i \in DOMAIN scorer.out : WellFormed(scorer.out[i])

\* two elements were parsed, merged into one candidate whose missing fields
\* were filled, and the candidate was returned
C23_Witness ==
    /\ scorer.pc = "returned" /\ scorer.grid = 0
    /\ Len(scorer.elements) = 2 /\ Len(scorer.found) = 2
    /\ Len(scorer.unique) = 1 /\ Len(scorer.out) = 1
    /\ scorer.unique[1].confidence > scorer.found[1].confidence

\* C24: the list extract_staff returns is in non-increasing order of
\* confidence and holds at most 20 candidates.
C24_SortedAndCapped ==
    scorer.pc = "returned" =>
        /\ Len(scorer.out) <= 20
        /\ \A i, j \in DOMAIN scorer.out :
              i < j => scorer.out[i].confidence >= scorer.out[j].confidence

\* more than 20 candidates of two confidences, not in order, were cut to 20
C24_Witness ==
    /\ scorer.pc = "returned"
    /\ Len(scorer.unique) > 20 /\ Len(scorer.out) = 20
    /\ scorer.out[1].confidence > scorer.out[20].confidence
    /\ \E i, j \in DOMAIN scorer.unique :
          i < j /\ scorer.unique[i].confidence < scorer.unique[j].confidence

\* the two candidates have the same name, are not duplicates by email, and
\* have different confidences
SameNamePair ==
    /\ TwoCandidates
    /\ scorer.found[1].name = scorer.found[2].name
    /\ ~(Present(scorer.found[1].email)
         /\ scorer.found[1].email = scorer.found[2].email)
    /\ scorer.found[1].confidence # scorer.found[2].confidence

\* the fields the lower-confidence candidate can supply to the higher one
Filled ==
    {f \in {"email", "phone", "title", "photo_url"} :
        ~Present(Higher[f]) /\ Present(Lower[f])}

\* C30: two candidates with the same name end as one candidate: the
\* higher-confidence one, each of its missing fields (email, phone, title,
\* photo) taken from the other, and its confidence raised by 0.5 for each
\* field taken, in either order.
C30_NameMerge ==
    SameNamePair =>
        /\ Len(scorer.unique) = 1
        /\ \A f \in CandidateFields :
              scorer.unique[1][f] = IF f \in Filled THEN Lower[f] ELSE Higher[f]
        /\ scorer.unique[1].confidence = Higher.confidence + Cardinality(Filled)

(***************************************************************************)
(* Properties of the validators and formatters (SpecContacts)              *)
(***************************************************************************)
\* the number of digits of a phone candidate
DigitCount(input) ==
    IF input.form = "str" THEN Len(digits_of(input.str))
    ELSE Len(input.groups[1]) + Len(input.groups[2]) + Len(input.groups[3])

\* C25: every phone an extractor accepts has 10 digits, and no phone is
\* accepted when every candidate has fewer than 10 digits; '12165551234'
\* gives '2165551234' and '2165551234' is unchanged.
C25_PhoneTenDigits ==
    fmt.pc = "done" =>
        /\ \A i \in DOMAIN fmt.phones : Len(fmt.phones[i]) = 10
        /\ (\A i \in DOMAIN fmt.phone_in : DigitCount(fmt.phone_in[i]) < 10)
              => fmt.phones = <<>>
        /\ \A i \in DOMAIN fmt.phone_in :
              fmt.phone_in[i] \in {PhoneStr("12165551234"), PhoneStr("2165551234")}
              => fmt.phones = <<"2165551234">>

\* C26: every email in the result of backend A or of backend B passes the
\* validator: it matches the address grammar and holds no deny-listed
\* pattern (example.com, domain.com, ...).
C26_EmailsValidated ==
    (fmt.pc = "done" /\ fmt.backend \in {"selenium", "firecrawl"}) =>
        \A i \in DOMAIN fmt.emails : validate_email(fmt.emails[i])

(***************************************************************************)
(* Properties of the browser sessions (SpecSessions)                       *)
(***************************************************************************)
\* C31: when a scrape_contacts call has ended, by a return or by an
\* exception, after any number of retries, every browser session started
\* during the call has been quit, and every attempt of the call used a
\* session started by the thread that makes the attempt.
C31_SessionTornDown ==
    /\ (br.ctx = "scrape" /\ br.pc = "ended")
         => \A i \in DOMAIN br.sessions : ~br.sessions[i].alive
    /\ \A i \in DOMAIN br.uses : br.uses[i].thread = br.uses[i].creator

\* C35: every attempt of ContactExtractor.extract_contacts, the first one, a
\* retry after a transient failure, or a later call on the same extractor,
\* runs on a browser session that has not been quit.
C35_AttemptOnLiveSession ==
    \A i \in DOMAIN br.uses : br.uses[i].alive

(***************************************************************************)
(* Properties of the tracker's locks (SpecLocks)                           *)
(***************************************************************************)
\* C33: at most one thread at a time is inside a with block of the resource
\* key's lock, at most one lock object is ever created for the key, and no
\* increment is lost: the error count of the key is the number of
\* record_error calls that have added their error since the last reset.
C33_LockedUpdates ==
    /\ Cardinality({x \in Threads : InCriticalSection(x) /\ th.t[x].pc # "acquire"}) <= 1
    /\ th.created <= 1
    /\ th.count = th.made

(***************************************************************************)
(* Properties of the circuits the decorated methods consult (SpecCalls)    *)
(***************************************************************************)
\* C21: a liveness check or an extraction against a domain for which the
\* tracker holds fewer errors than the threshold is never refused with
\* CircuitOpenException, whatever failures other domains have had.
C21_NoStarvation ==
    (dc.op \in {"verify_url", "scrape_contacts"} /\ dc.own_errors < error_threshold)
        => dc.raised # "CircuitOpenException"

\* C37: one verify_url or scrape_contacts call, whatever the number of its
\* attempts, adds at most one error to the error count of its domain, so a
\* domain's circuit opens only after error_threshold failed operations.
C37_OneErrorPerCall ==
    dc.op \in {"verify_url", "scrape_contacts"}
    => total_errors(tracker, dc.domain) <= dc.own_errors + 1

(***************************************************************************)
(* Properties of a run (SpecRun)                                           *)
(***************************************************************************)
\* the step starts a new process
IsRestart == run'.restarts = run.restarts + 1

\* C13: a process started while a checkpoint exists starts with the
\* checkpoint's total_processed and job_id; process_dealerships keeps a
\* job_id once there is one, and the counting goes on from the loaded
\* value: every later step leaves total_processed or adds one to it.
C13_ResumesFromCheckpoint ==
    [][/\ (IsRestart /\ ckpt.file # <<>> /\ ckpt.file[1].complete)
            => /\ prog'.total_processed = ckpt.file[1].doc.total_processed
               /\ prog'.job_id = ckpt.file[1].doc.job_id
       /\ (~IsRestart /\ prog.job_id # None) => prog'.job_id = prog.job_id
       /\ ~IsRestart
            => prog'.total_processed \in {prog.total_processed, prog.total_processed + 1}
      ]_vars

\* the second process has counted one row on top of the one it loaded
C13_Witness ==
    /\ run.restarts = 1
    /\ prog.total_processed = 2
    /\ prog.job_id = NewJobId(0)

\* C14: the checkpoint file is absent or holds a complete document, and it
\* changes only by the os.replace of a saver that holds the lock file and
\* has finished writing the temporary file: no step of save_progress before
\* that, and no death of the process, touches the last good checkpoint.
C14_CheckpointNeverPartial ==
    /\ [](ckpt.file = <<>> \/ ckpt.file[1].complete)
    /\ [][ckpt'.file # ckpt.file
            => \E c \in Savers :
                  /\ run.sp[c].pc = "replace" /\ ckpt.lock = c
                  /\ ckpt.tmp # <<>> /\ ckpt.tmp[1].complete
                  /\ ckpt'.file = ckpt.tmp
          ]_vars

\* a process died between open() and the end of json.dump: the next process
\* found the checkpoint of an earlier save and loaded it
C14_Witness ==
    /\ run.restarts = 1 /\ run.pc = "constructed"
    /\ ckpt.tmp = <<[complete |-> FALSE]>>
    /\ ckpt.file # <<>>
    /\ prog.total_processed = 1 /\ ckpt.file[1].doc.total_processed = 1

\* C17: whatever the number of shutdown requests, DealershipVerifier.cleanup
\* runs at most once and the executor is shut down by the supervisor at most
\* once in a process.
C17_ShutdownIdempotent ==
    /\ run.cleanup_runs <= 1
    /\ run.executor_shutdowns <= 1

CurrentDocument == [complete |-> TRUE, doc |-> json_dump(progress_dict(prog), prog)]

\* C27: process_dealerships ends with an error exactly when a write of the
\* checkpoint or of the final results raised during the run: such a failure
\* is not swallowed, and nothing else aborts the run.
C27_AbortIffPersistenceError ==
    MainEnded => (run.pc = "raised" <=> run.write_failed)

\* C34: the checkpoint never goes backwards: whenever a save_progress call of
\* the main thread, of the monitor or of the cleanup handler replaces the
\* checkpoint file, the total_processed it writes is at least the
\* total_processed the file held.
C34_CheckpointMonotonic ==
    [][(ckpt.file # <<>> /\ ckpt'.file # <<>>)
         => ckpt'.file[1].doc.total_processed >= ckpt.file[1].doc.total_processed]_vars

\* C38: when a process that started from a checkpoint has completed its run,
\* total_processed is at most the number of records of the input file: no
\* record counted before the restart is counted again.
C38_NoDoubleCount ==
    (run.restarts > 0 /\ run.pc = "returned")
    => prog.total_processed <= run.nb * RunBatchSize

\* C19: when the run has ended (process_dealerships returned, or raised
\* after a shutdown request, the workers having stopped), the checkpoint
\* file holds the final in-memory JobProgress.
C19_FinalCheckpoint ==
    MainEnded => ckpt.file = <<CurrentDocument>>

\* initiate_shutdown waits for the lock file, which is held by the
\* save_progress call its signal handler interrupted
HandlerBlocked ==
    /\ run.hs # <<>> /\ Top = "cleanup"
    /\ run.sp["handler"].pc = "lock"
    /\ ckpt.lock = "main"

\* C20: initiate_shutdown, run by the signal handler on the main thread,
\* never waits for something that cannot happen and never ends by an
\* exception: it completes.
C20_ShutdownTerminates ==
    /\ ~HandlerBlocked
    /\ ~run.sd_raised

(***************************************************************************)
(* Properties of ResourceGuard (SpecGuard)                                 *)
(***************************************************************************)
\* the first n elements of a list
Prefix(l, n) == SubSeq(l, 1, n)

\* C16: a guard with a cleanup callback has called it exactly once as soon as
\* it was released or its scope was left, and not at all before; the call
\* received the initial resources followed by the resources added before it,
\* whatever add_resource, release() and exit did afterwards.
C16_CleanupExactlyOnce ==
    (guard.pc # "none" /\ guard.cleanup_func) =>
        /\ (guard.pc = "exited" \/ guard.releases > 0) <=> guard.released
        /\ Len(guard.calls) = IF guard.released THEN 1 ELSE 0
        /\ guard.released
             => guard.calls[1] = guard.initial \o Prefix(guard.added, guard.before)

\* a resource added, the guard released in the scope, a resource added
\* after that, the scope left by an exception, release() called again
C16_Witness ==
    /\ guard.cleanup_func /\ guard.pc = "exited" /\ guard.exit = "exception"
    /\ guard.releases = 2 /\ Len(guard.added) = 2 /\ guard.before = 1
    /\ Len(guard.initial) = 1
    /\ Len(guard.calls) = 1 /\ Len(guard.calls[1]) = 2

TypeOK ==
    /\ now \in 0..MaxTime
    /\ w.pc \in {"idle", "call_func", "sleep"}
    /\ w.result \in {"none", "returned", "raised", "refused"}

====
